---- MODULE Spec2Model ----
(***************************************************************************)
(* Milochat: the chat client (transport listeners, blacklist filter,      *)
(* pronoun lookup) and the ChatBox display log with its count / time      *)
(* limits and the fade-then-remove protocol.                              *)
(*                                                                         *)
(* The repository holds two generations of the client: the object         *)
(* returned by realChat() in src/src/Client.tsx (blacklist filter and     *)
(* clear-chat listener inside the client) and the class RealChat in       *)
(* src/unnamed/part_009 (hook lists, augment()).  options.impl selects    *)
(* the one a session runs; the ChatBox hooks are those of part_009.       *)
(*                                                                         *)
(* React applies the queued setLog updates in the order of the setLog     *)
(* calls; an update queued from inside an updater is applied right after  *)
(* that updater's result.  Time is a discrete clock; a setTimeout fires   *)
(* when its delay has elapsed, timers in due order, ties in registration  *)
(* order.                                                                  *)
(*                                                                         *)
(* Beside the session the module models SuperBank (src/src/Images.tsx)    *)
(* under arbitrary calls, ImageService.populate (src/unnamed/part_000)    *)
(* with every fetch succeeding or failing, and the blacklist verdict on   *)
(* arbitrary names; each has a specification of its own.  So have the     *)
(* blacklist verdict on message texts (ContentSpec), the fields the        *)
(* Twitch message constructors and resolveBadges derive from tags          *)
(* (TwitchSpec), the message html with its derived flags under setMessage  *)
(* and resolveEmotes (HtmlSpec), and the command Bot of the class-based    *)
(* client (BotSpec).  JoinSpec runs the bot's join commands against the    *)
(* channel limit, ScanSpec the first loop of resolveEmotes pass by pass,   *)
(* ModSpec the moderation events of the transport, FadeSpec the count      *)
(* limit with a fade under fair timers, and PopulateSpec populate() of     *)
(* both generations.                                                       *)
(***************************************************************************)
EXTENDS Integers, Sequences, FiniteSets, TLC

\* ---------------------------------------------------------------- bounds
MaxMsgs == 4
MaxLookups == 3
MaxTime == 4
MaxName == 3
MaxCount == 3
LimitMs == 2
FadeMs == 1
MaxColorName == 6
MaxHtml == 5
MaxRaw == 4
MaxBadges == 2
MaxScan == 3
MaxSteps == 6

\* ------------------------------------------------------------ data domain
\* strings are sequences of characters
Bob == <<"B", "o", "b">>
Amy == <<"a", "m", "y">>
Users == {Bob, Amy}
NO_PRONOUN == "none"
PronounIds == {"hehim"}
\* what a per-user fetch can settle with: rejected, [] or [{pronoun_id}]
Responses == {"fail", "empty"} \cup PronounIds

Limits ==
    {[type |-> "none", count |-> 0, ms |-> 0, fade |-> 0]}
    \cup {[type |-> "count", count |-> c, ms |-> 0, fade |-> f] :
              c \in 1..MaxCount, f \in {0, FadeMs}}
    \cup {[type |-> "time", count |-> 0, ms |-> LimitMs, fade |-> f] :
              f \in {0, FadeMs}}

\* --------------------------------------------------------- pure functions
RECURSIVE SeqToSet(_)
SeqToSet(s) == IF s = <<>> THEN {} ELSE {Head(s)} \cup SeqToSet(Tail(s))

UpperChar(c) ==
    CASE c = "a" -> "A" [] c = "b" -> "B" [] c = "m" -> "M"
      [] c = "o" -> "O" [] c = "y" -> "Y" [] OTHER -> c

toUpperCase(s) == [i \in DOMAIN s |-> UpperChar(s[i])]

startsWith(s, p) == Len(p) <= Len(s) /\ SubSeq(s, 1, Len(p)) = p

\* String.prototype.match with an argument that holds no regex
\* metacharacter: an unanchored, case-sensitive search
match(s, pat) ==
    \E i \in 1..(Len(s) + 1) :
        i + Len(pat) - 1 <= Len(s) /\ SubSeq(s, i, i + Len(pat) - 1) = pat

isBlacklistUser(opts, user) ==
    \E k \in DOMAIN opts.blacklist.users :
        LET test == opts.blacklist.users[k] IN
            \/ toUpperCase(user) = toUpperCase(test)
            \/ match(user, test)

\* the characters of the regex class \w among the characters strings are
\* made of here
WordChars ==
    {"a", "b", "m", "o", "y", "A", "B", "M", "O", "Y", "h", "l", "t", "g",
     "3"}

\* the regex assertion \b before position i of s (i = Len(s) + 1: the end)
wordBoundary(s, i) ==
    LET before == i > 1 /\ s[i - 1] \in WordChars
        after == i <= Len(s) /\ s[i] \in WordChars
    IN  before # after

\* the regex \bword\b, word holding no metacharacter, matches s at i
wordAt(s, word, i) ==
    /\ i + Len(word) - 1 <= Len(s)
    /\ SubSeq(s, i, i + Len(word) - 1) = word
    /\ wordBoundary(s, i)
    /\ wordBoundary(s, i + Len(word))

\* new RegExp(`\\b${word}\\b`, 'gi').test(s), on a new regex
testWord(word, s) ==
    \E i \in 1..Len(s) : wordAt(toUpperCase(s), toUpperCase(word), i)

isBlacklistMessage(opts, message) ==
    \/ \E k \in DOMAIN opts.blacklist.prefixes :
           startsWith(toUpperCase(message), toUpperCase(opts.blacklist.prefixes[k]))
    \/ \E k \in DOMAIN opts.blacklist.includes :
           \* regex.test(word): the word is tested against itself
           testWord(opts.blacklist.includes[k], opts.blacklist.includes[k])
    \/ \E k \in DOMAIN opts.blacklist.matches :
           match(message, opts.blacklist.matches[k])

isBlacklist(opts, msg) ==
    isBlacklistUser(opts, msg.name) \/ isBlacklistMessage(opts, msg.message)

take(s, n) ==
    IF n <= 0 THEN <<>> ELSE IF n >= Len(s) THEN s ELSE SubSeq(s, 1, n)

concat(l, m) == Append(l, m)

differenceBy(lines, toNix) ==
    SelectSeq(lines, LAMBDA id : id \notin SeqToSet(toNix))

filterById(lines, id) ==
    SelectSeq(lines, LAMBDA line : line # id)

RECURSIVE reverse(_)
reverse(s) == IF s = <<>> THEN <<>> ELSE Append(reverse(Tail(s)), Head(s))

\* mutant: log.reverse() instead of [...log].reverse()
render_inPlace(opts, l) ==
    [rows |-> IF opts.direction = "up" THEN reverse(l) ELSE l,
     log |-> IF opts.direction = "up" THEN reverse(l) ELSE l]

\* the render of ChatBox: the rows it maps, and the state array it leaves
render(opts, l) ==
    [rows |-> IF opts.direction = "up" THEN reverse(l) ELSE l, log |-> l]

\* ------------------------------------------------- Bank and SuperBank
\* a Bank is a function from the ids it holds to images; images are
\* objects, so every image is truthy and "undefined" is not an image
BankKeys == {"kappa", "lul"}
Imgs == {"img1", "img2"}
Channels == {"a", "b"}
Banks == UNION {[d -> Imgs] : d \in SUBSET BankKeys}
EmptyBank == [k \in {} |-> "img1"]
\* a Bank of Banks, keyed on channel
LocalBanks == UNION {[d -> Banks] : d \in SUBSET Channels}
NoLocals == [c \in {} |-> EmptyBank]

\* the banks handed to addGlobal, and the banks of banks handed to addLocals
Patches ==
    {EmptyBank, "kappa" :> "img1", "kappa" :> "img2", "lul" :> "img1",
     ("kappa" :> "img2") @@ ("lul" :> "img2")}
LocalPatches ==
    {NoLocals}
    \cup {c :> bank : c \in Channels, bank \in Patches}
    \cup {("a" :> p) @@ ("b" :> q) :
              p, q \in {"kappa" :> "img1", "lul" :> "img2"}}

\* new SuperBank()
NewSuperBank == [global |-> EmptyBank, local |-> NoLocals]

\* the object literal {...a, ...b}
spread(a, b) ==
    [k \in DOMAIN a \cup DOMAIN b |-> IF k \in DOMAIN b THEN b[k] ELSE a[k]]

\* o[k] of a plain object
prop(o, k) == IF k \in DOMAIN o THEN o[k] ELSE "undefined"

truthy(v) == v \notin {"undefined", ""}

\* mutant: this.global[id] || this.local[channel]?.[id]
get_globalFirst(s, id, channel) ==
    LET l == IF channel \in DOMAIN s.local THEN prop(s.local[channel], id)
             ELSE "undefined"
        g == prop(s.global, id)
    IN  [self |-> s, val |-> IF truthy(g) THEN g ELSE l]

\* SuperBank.get: the SuperBank after the call and the value returned
get(s, id, channel) ==
    LET l == IF channel \in DOMAIN s.local THEN prop(s.local[channel], id)
             ELSE "undefined"
    IN  [self |-> s, val |-> IF truthy(l) THEN l ELSE prop(s.global, id)]

\* mutant: {...local, ...this.global}
getAll_globalWins(s, channel) ==
    LET local == IF channel \in DOMAIN s.local THEN s.local[channel]
                 ELSE EmptyBank
    IN  [self |-> s, obj |-> "fresh", all |-> spread(local, s.global)]

\* mutant: without a bank for the channel the global bank itself is returned
getAll_shareGlobal(s, channel) ==
    IF channel \in DOMAIN s.local
    THEN [self |-> s, obj |-> "fresh",
          all |-> spread(s.global, s.local[channel])]
    ELSE [self |-> s, obj |-> "global", all |-> s.global]

\* SuperBank.getAll: the SuperBank after the call, the object returned
\* ("fresh": an object no field of the SuperBank refers to) and its content
getAll(s, channel) ==
    LET local == IF channel \in DOMAIN s.local THEN s.local[channel]
                 ELSE EmptyBank
    IN  [self |-> s, obj |-> "fresh", all |-> spread(s.global, local)]

\* mutant: {...bank, ...this.global}
addGlobal_keepOld(s, bank) == [s EXCEPT !.global = spread(bank, @)]

\* SuperBank.addGlobal
addGlobal(s, bank) == [s EXCEPT !.global = spread(@, bank)]

\* mutant: this.local[channel] = bank[channel]
addLocals_replace(s, bank) ==
    [s EXCEPT !.local =
        [c \in DOMAIN s.local \cup DOMAIN bank |->
            IF c \in DOMAIN bank THEN bank[c] ELSE s.local[c]]]

\* SuperBank.addLocals: the loop over Object.keys(bank)
addLocals(s, bank) ==
    [s EXCEPT !.local =
        [c \in DOMAIN s.local \cup DOMAIN bank |->
            IF c \in DOMAIN bank
            THEN spread(IF c \in DOMAIN s.local THEN s.local[c]
                        ELSE EmptyBank, bank[c])
            ELSE s.local[c]]]

\* ------------------------------------------------------------------ state
VARIABLES
    options,       \* MilochatOptions of the session, plus impl
    displayMap,    \* PronounService.displayMap is non-empty
    pronounCache,  \* PronounService.pronounCache: user -> "unset" | id
    msgs,          \* the messages the transport has delivered, by id
    log,           \* ChatBox state: the ids of the displayed messages
    marked,        \* ids of the messages with markedForDelete = true
    timers,        \* pending setTimeout callbacks, in registration order
    now,           \* the clock
    ended,         \* end() has been called on the client
    rendered,      \* the rows of the last render
    markedAt,      \* history: id -> time of its first marking, or -1
    appended,      \* history: every id appended to the log, in order
    clearedAt,     \* history: Len(appended) at the last clear
    firstDone,     \* history: user -> result of the first completed lookup
    lastDone,      \* history: user -> result of the latest completed lookup
    ev,            \* history: what the last step did
    sb,            \* a SuperBank: [global, local]
    hist,          \* history: the last call on sb
    images,        \* ImageService: _emotes, _badges, _customBadges
    pop,           \* the populate() call: where it awaits, what settled
    bl,            \* a blacklist check: sender, entry, verdict
    bm,            \* a blacklist check of a message text against an entry
    tm,            \* a Twitch message: the tags it is built from, its fields
    am,            \* an AbstractMessage: its html and the derived flags
    bot            \* the command Bot and the client it drives

bankVars == <<sb, hist>>
catalogVars == <<images, pop>>

\* the state outside the chat session
\* the message text checks, the message objects and the bot
msgVars == <<bm, tm, am, bot>>

libVars == <<sb, hist, images, pop, bl, msgVars>>

\* the state of the chat session
chatVars == <<options, displayMap, pronounCache, msgs, log, marked, timers,
              now, ended, rendered, markedAt, appended, clearedAt, firstDone,
              lastDone, ev>>

vars == <<options, displayMap, pronounCache, msgs, log, marked, timers, now,
          ended, rendered, markedAt, appended, clearedAt, firstDone,
          lastDone, ev, sb, hist, images, pop, bl, bm, tm, am, bot>>

\* op: the call; bank, banks, channel, id: its arguments; val, all: what it
\* returned; obj: which object the returned bank is; before: the SuperBank
\* before the call
NoHist == [op |-> "new", bank |-> EmptyBank, banks |-> NoLocals,
           channel |-> "", id |-> "", val |-> "undefined", all |-> EmptyBank,
           obj |-> "none", before |-> NewSuperBank]

\* a SuperBank as its constructor leaves it
BankIdle == sb = NewSuperBank /\ hist = NoHist

\* the ImageService singleton before populate() is called
NewImages == [emotes |-> NewSuperBank, badges |-> NewSuperBank,
              customBadges |-> EmptyBank]

Sources ==
    {"twitchBadges", "ffzGlobal", "ffzChannels", "bttvGlobal", "bttvBadges"}

NoPopulate ==
    [pc |-> "idle", pending |-> {}, channel |-> <<>>, useFfz |-> FALSE,
     useBttv |-> FALSE, got |-> [x \in Sources |-> "none"],
     ready |-> FALSE, enriched |-> FALSE, partial |-> FALSE,
     each |-> FALSE, rooms |-> [c \in {} |-> "none"], order |-> <<>>]

CatalogIdle == images = NewImages /\ pop = NoPopulate

NoCheck == [user |-> <<>>, entry |-> <<>>, verdict |-> "unchecked"]

BlacklistIdle == bl = NoCheck

\* an object without a tag
NoTags == [k \in {} |-> TRUE]

\* no message has been constructed
NoFields ==
    [name |-> <<>>, color |-> <<>>, hash |-> 0, mod |-> FALSE, sub |-> FALSE,
     broadcaster |-> FALSE, subMonths |-> <<>>, prime |-> FALSE,
     level |-> "none", resub |-> FALSE, cumulative |-> <<>>,
     partner |-> FALSE, id |-> <<>>,
     timestamp |-> [from |-> "none", ms |-> 0]]

\* no message is being constructed
NoTwitch == [pc |-> "idle", class |-> "none", tags |-> NoTags,
             fields |-> NoFields, bank |-> EmptyBank,
             customBadges |-> EmptyBank, badges |-> <<>>, op |-> "none",
             message |-> <<>>, html |-> <<>>]

\* no message html is held
NoHtml == [pc |-> "idle", arg |-> <<>>, message |-> <<>>, emoteOnly |-> FALSE,
           isOneEmoteOnly |-> FALSE, emotes |-> [i \in {} |-> 0],
           bank |-> <<>>, op |-> "none", raw |-> <<>>, idx |-> 0,
           html |-> <<>>, steps |-> 0]

\* no client has been constructed
NoBot ==
    [pc |-> "idle", commands |-> [kind |-> "false", value |-> <<>>],
     hasBot |-> FALSE, prefix |-> <<>>, channels |-> {}, joining |-> {},
     leaving |-> {},
     msg |-> [message |-> <<>>, channel |-> <<>>, broadcaster |-> FALSE,
              mod |-> FALSE],
     call |-> [op |-> "none", channel |-> <<>>],
     delivered |-> [message |-> <<>>, channel |-> <<>>,
                    broadcaster |-> FALSE, mod |-> FALSE]]

\* no message text has been checked
NoContent == [text |-> <<>>, entry |-> <<>>, list |-> "none",
              verdict |-> "unchecked"]

ContentIdle == bm = NoContent

TwitchIdle == tm = NoTwitch

HtmlIdle == am = NoHtml

BotIdle == bot = NoBot

MsgIdle == ContentIdle /\ TwitchIdle /\ HtmlIdle /\ BotIdle

LibIdle == BankIdle /\ CatalogIdle /\ BlacklistIdle /\ MsgIdle

\* op: the step; app: the id it appended; nix: the ids its removal
\* targeted; seen: how many messages had been appended when that removal
\* was scheduled; removed: how many entries left the log
NoEv == [op |-> "init", m |-> 0, app |-> 0, nix |-> {}, removal |-> FALSE,
         seen |-> 0, removed |-> 0]

\* the option records a session can be constructed with
Options ==
    [impl : {"realChat", "RealChat"},
     limit : Limits,
     direction : {"up", "down"},
     pronouns : BOOLEAN,
     blacklist : {[users |-> << <<"b", "o", "b">> >>,
                   prefixes |-> <<>>, includes |-> <<>>, matches |-> <<>>]}]

\* the state once the ChatBox effect has run: hooks registered, the client
\* started, the log empty; the display map as the preload left it
InitWith(opts, maps) ==
    /\ options \in opts
    /\ displayMap \in maps
    /\ pronounCache = [u \in Users |-> "unset"]
    /\ msgs = <<>>
    /\ log = <<>>
    /\ marked = {}
    /\ timers = <<>>
    /\ now = 0
    /\ ended = FALSE
    /\ rendered = <<>>
    /\ markedAt = [x \in 1..MaxMsgs |-> -1]
    /\ appended = <<>>
    /\ clearedAt = 0
    /\ firstDone = [u \in Users |-> "unset"]
    /\ lastDone = [u \in Users |-> "unset"]
    /\ ev = NoEv

\* sessions without pronoun lookup, with the client of Client.tsx: the
\* display log, its limits and timers.  (The ChatBox hook sees the same
\* sequences of messages from RealChat, which neither filters nor clears.)
Init ==
    /\ InitWith({o \in Options : ~o.pronouns /\ o.impl = "realChat"}, {FALSE})
    /\ LibIdle

\* sessions with no limit on the log, with either client, with and without
\* pronoun lookup; the display map is loaded only when the lookup is enabled
PronounInit ==
    /\ InitWith({o \in Options : /\ o.limit.type = "none"
                                 /\ o.direction = "down"}, BOOLEAN)
    /\ displayMap => options.pronouns
    /\ LibIdle

\* -------------------------------------------------- ChatBox: display log
\* a display-log state: the React state, the flags, the timers, and the
\* ids the step removed by identity
Box == [log |-> log, marked |-> marked, timers |-> timers, nix |-> {},
        removal |-> FALSE, seen |-> Len(appended)]

fades == options.limit.type # "none" /\ options.limit.fade > 0

\* mutant: destroy() at once although a fade is configured
registerForDeleteArray_noFade(b, toNix) ==
    [b EXCEPT !.log = differenceBy(@, toNix),
              !.nix = SeqToSet(toNix), !.removal = TRUE]

\* mutant: the entries are marked and no destroy timer is started
registerForDeleteArray_noTimer(b, toNix) ==
    IF fades
    THEN [b EXCEPT !.marked = @ \cup SeqToSet(toNix)]
    ELSE [b EXCEPT !.log = differenceBy(@, toNix),
                   !.nix = SeqToSet(toNix), !.removal = TRUE]

\* registerForDelete(message: Message[], ...)
registerForDeleteArray(b, toNix) ==
    IF fades
    THEN [b EXCEPT !.marked = @ \cup SeqToSet(toNix),
                   !.timers = Append(@, [kind |-> "destroyArray",
                                         ids |-> toNix,
                                         due |-> now + options.limit.fade,
                                         seen |-> b.seen])]
    ELSE [b EXCEPT !.log = differenceBy(@, toNix),
                   !.nix = SeqToSet(toNix), !.removal = TRUE]

\* registerForDelete(message: Message, ...)
registerForDeleteOne(b, toNix) ==
    IF fades
    THEN [b EXCEPT !.marked = @ \cup {toNix},
                   !.timers = Append(@, [kind |-> "destroyOne",
                                         ids |-> <<toNix>>,
                                         due |-> now + options.limit.fade,
                                         seen |-> b.seen])]
    ELSE [b EXCEPT !.log = filterById(@, toNix),
                   !.nix = {toNix}, !.removal = TRUE]

\* mutant: _.take(concat, max) instead of _.take(concat, length - max)
appendUpdater_takeMax(b, message) ==
    LET cc == concat(b.log, message)
        b1 == [b EXCEPT !.log = cc]
    IN  IF options.limit.type = "count" /\ Len(cc) > options.limit.count
        THEN registerForDeleteArray(b1, take(cc, options.limit.count))
        ELSE b1

\* the updater handed to setLog by the message hook
appendUpdater(b, message) ==
    LET cc == concat(b.log, message)
        b1 == [b EXCEPT !.log = cc]
    IN  IF options.limit.type = "count" /\ Len(cc) > options.limit.count
        THEN registerForDeleteArray(b1, take(cc, Len(cc) - options.limit.count))
        ELSE b1

\* mutant: the removal timer is started only once the log is longer than one
onMessageHook_timerByLength(b, message) ==
    LET b1 == IF options.limit.type = "time" /\ Len(b.log) > 0
              THEN [b EXCEPT !.timers =
                        Append(@, [kind |-> "limit", ids |-> <<message>>,
                                   due |-> now + options.limit.ms,
                                   seen |-> b.seen])]
              ELSE b
    IN  appendUpdater(b1, message)

\* chat.onMessage(message => ...) of ChatBox
onMessageHook(b, message) ==
    LET b1 == IF options.limit.type = "time"
              THEN [b EXCEPT !.timers =
                        Append(@, [kind |-> "limit", ids |-> <<message>>,
                                   due |-> now + options.limit.ms,
                                   seen |-> b.seen])]
              ELSE b
    IN  appendUpdater(b1, message)

\* every timer a hook invoked now would start fires within the clock's range
Horizon == now + options.limit.ms + options.limit.fade <= MaxTime

\* the step leaves the display log as b and ChatBox renders again
SetBox(b) ==
    /\ log' = render(options, b.log).log
    /\ rendered' = render(options, b.log).rows
    /\ marked' = b.marked
    /\ timers' = b.timers
    /\ markedAt' = [x \in 1..MaxMsgs |->
                       IF x \in b.marked \ marked THEN now ELSE markedAt[x]]

\* a message reaches the ChatBox hook
Deliver(m, op) ==
    LET b == onMessageHook([Box EXCEPT !.seen = Len(appended) + 1], m) IN
        /\ SetBox(b)
        /\ appended' = Append(appended, m)
        /\ ev' = [op |-> op, m |-> m, app |-> m, nix |-> b.nix,
                  removal |-> b.removal, seen |-> b.seen,
                  removed |-> Len(log) + 1 - Len(b.log)]

\* ------------------------------------------------------ pronoun service
\* mutant: the empty display map does not stop the per-user fetch
getPronouns_fetchUnloaded(cache, map, username) ==
    IF cache[username] # "unset"
    THEN [lookup |-> "cache",
          p |-> IF cache[username] = NO_PRONOUN THEN "absent"
                ELSE cache[username]]
    ELSE [lookup |-> "fetch", p |-> "pending"]

\* PronounService.getPronouns up to the fetch: what the call answers from
\* the cache or the empty display map, or that it fetches
getPronouns(cache, map, username) ==
    IF cache[username] # "unset"
    THEN [lookup |-> "cache",
          p |-> IF cache[username] = NO_PRONOUN THEN "absent"
                ELSE cache[username]]
    ELSE IF ~map
    THEN [lookup |-> "nomap", p |-> "absent"]
    ELSE [lookup |-> "fetch", p |-> "pending"]

\* mutant: the "no pronoun" outcome is not written to the cache
cacheAfter_noNegative(cache, username, r) ==
    IF r \in PronounIds THEN [cache EXCEPT ![username] = r] ELSE cache

\* the .then / .catch of the fetch: the cache after response r
cacheAfter(cache, username, r) ==
    IF r = "fail" THEN cache
    ELSE IF r = "empty" THEN [cache EXCEPT ![username] = NO_PRONOUN]
    ELSE [cache EXCEPT ![username] = r]

\* the .then / .catch of the fetch: the value the promise resolves with
fetched(r) == IF r \in PronounIds THEN r ELSE "absent"

\* --------------------------------------------------------------- client
\* history kept under a time limit: when the hook was invoked for a message
hookTime == IF options.limit.type = "time" THEN now ELSE -1

NewMsg(u) ==
    [name |-> u, message |-> <<"h", "i">>, where |-> "dropped",
     lookup |-> "off", known |-> "unset", latest |-> "unset",
     result |-> "absent", response |-> "none", late |-> FALSE, at |-> -1,
     cleared |-> FALSE]

\* the client drops the message before any hook: only realChat() of
\* Client.tsx consults isBlacklist
filtered(msg) == options.impl = "realChat" /\ isBlacklist(options, msg)

\* client.on('message', ...): the transport delivers a chat message of u
Message(u) ==
    /\ ~ended
    /\ Len(msgs) < (IF options.pronouns THEN MaxLookups ELSE MaxMsgs)
    /\ Horizon
    /\ LET m == Len(msgs) + 1
           msg == NewMsg(u)
           g == getPronouns(pronounCache, displayMap, u)
       IN  /\ UNCHANGED <<libVars, options, displayMap, pronounCache, now, ended,
                          clearedAt, firstDone, lastDone>>
           /\ IF filtered(msg)
              THEN /\ msgs' = Append(msgs, msg)
                   /\ ev' = [NoEv EXCEPT !.op = "drop", !.m = m]
                   /\ UNCHANGED <<log, marked, timers, rendered, markedAt,
                                  appended>>
              ELSE IF ~options.pronouns
              THEN /\ msgs' = Append(msgs, [msg EXCEPT !.where = "delivered",
                                                       !.at = hookTime])
                   /\ Deliver(m, "message")
              ELSE IF g.lookup = "fetch"
              THEN /\ msgs' = Append(msgs,
                            [msg EXCEPT !.where = "pending",
                                        !.lookup = "fetch",
                                        !.known = firstDone[u],
                                        !.latest = lastDone[u],
                                        !.result = "pending"])
                   /\ ev' = [NoEv EXCEPT !.op = "fetch", !.m = m]
                   /\ UNCHANGED <<log, marked, timers, rendered, markedAt,
                                  appended>>
              ELSE /\ msgs' = Append(msgs,
                            [msg EXCEPT !.where = "delivered",
                                        !.at = hookTime,
                                        !.lookup = g.lookup,
                                        !.known = firstDone[u],
                                        !.latest = lastDone[u],
                                        !.result = g.p])
                   /\ Deliver(m, "message")

\* mutant: a rejected fetch ends the listener before the hook is called
PronounResolve_lostOnFail(m, r) ==
    /\ m \in DOMAIN msgs
    /\ msgs[m].where = "pending"
    /\ Horizon
    /\ LET u == msgs[m].name IN
        /\ pronounCache' = cacheAfter(pronounCache, u, r)
        /\ firstDone' = IF r # "fail" /\ firstDone[u] = "unset"
                        THEN [firstDone EXCEPT ![u] = fetched(r)]
                        ELSE firstDone
        /\ lastDone' = IF r # "fail"
                       THEN [lastDone EXCEPT ![u] = fetched(r)]
                       ELSE lastDone
        /\ IF r = "fail"
           THEN /\ msgs' = [msgs EXCEPT ![m].where = "lost",
                                        ![m].response = r]
                /\ ev' = [NoEv EXCEPT !.op = "resolve", !.m = m]
                /\ UNCHANGED <<log, marked, timers, rendered, markedAt,
                               appended>>
           ELSE /\ msgs' = [msgs EXCEPT ![m].where = "delivered",
                                        ![m].result = fetched(r),
                                        ![m].response = r,
                                        ![m].late = ended,
                                        ![m].at = hookTime]
                /\ Deliver(m, "resolve")
        /\ UNCHANGED <<libVars, options, displayMap, now, ended, clearedAt>>

\* the per-user fetch of message m settles with r; the suspended listener
\* resumes: resolvePronouns, then the hook
PronounResolve(m, r) ==
    /\ m \in DOMAIN msgs
    /\ msgs[m].where = "pending"
    /\ Horizon
    /\ LET u == msgs[m].name IN
        /\ pronounCache' = cacheAfter(pronounCache, u, r)
        /\ msgs' = [msgs EXCEPT ![m].where = "delivered",
                                ![m].result = fetched(r),
                                ![m].response = r,
                                ![m].late = ended,
                                ![m].at = hookTime]
        /\ firstDone' = IF r # "fail" /\ firstDone[u] = "unset"
                        THEN [firstDone EXCEPT ![u] = fetched(r)]
                        ELSE firstDone
        /\ lastDone' = IF r # "fail"
                       THEN [lastDone EXCEPT ![u] = fetched(r)]
                       ELSE lastDone
        /\ Deliver(m, "resolve")
        /\ UNCHANGED <<libVars, options, displayMap, now, ended, clearedAt>>

\* populatePronounDisplayMap(): the directory fetch settles with a
\* non-empty mapping (a rejected fetch leaves the map as it is)
populatePronounDisplayMap ==
    /\ options.pronouns
    /\ ~displayMap
    /\ displayMap' = TRUE
    /\ ev' = [NoEv EXCEPT !.op = "map"]
    /\ UNCHANGED <<libVars, options, pronounCache, msgs, log, marked, timers, now,
                   ended, rendered, markedAt, appended, clearedAt, firstDone,
                   lastDone>>

\* mutant: the rows that are fading out survive the clear
clearChatHook_keepFading(b) ==
    [b EXCEPT !.log = SelectSeq(@, LAMBDA x : x \in b.marked)]

\* chat.onClearChat(() => setLog([])) of ChatBox
clearChatHook(b) == [b EXCEPT !.log = <<>>]

\* client.on('clearchat', ...); RealChat has no such listener.  History:
\* the messages that wait for their lookup are noted as older than a clear
ClearChat ==
    /\ ~ended
    /\ options.impl = "realChat"
    /\ SetBox(clearChatHook(Box))
    /\ clearedAt' = Len(appended)
    /\ msgs' = [x \in DOMAIN msgs |->
                   [msgs[x] EXCEPT !.cleared = @ \/ msgs[x].where = "pending"]]
    /\ ev' = [NoEv EXCEPT !.op = "clear", !.removed = Len(log)]
    /\ UNCHANGED <<libVars, options, displayMap, pronounCache, now, ended,
                   appended, firstDone, lastDone>>

\* chat.end(): removeAllListeners and disconnect
End ==
    /\ ~ended
    /\ ended' = TRUE
    /\ ev' = [NoEv EXCEPT !.op = "end"]
    /\ UNCHANGED <<libVars, options, displayMap, pronounCache, msgs, log, marked,
                   timers, now, rendered, markedAt, appended, clearedAt,
                   firstDone, lastDone>>

\* --------------------------------------------------------------- timers
\* the timer that fires next: least due time, first registered among equals
NextTimer ==
    CHOOSE i \in DOMAIN timers :
        \A j \in DOMAIN timers :
            timers[i].due < timers[j].due
            \/ (timers[i].due = timers[j].due /\ i <= j)

RemoveAt(s, i) == SubSeq(s, 1, i - 1) \o SubSeq(s, i + 1, Len(s))

\* mutant: removal by position, the first Len(toNix) entries
destroyArray_positional(b, toNix) ==
    [b EXCEPT !.log = SubSeq(@, Len(toNix) + 1, Len(@)),
              !.nix = SeqToSet(toNix), !.removal = TRUE]

\* destroy() of registerForDelete(Message[])
destroyArray(b, toNix) ==
    [b EXCEPT !.log = differenceBy(@, toNix), !.nix = SeqToSet(toNix),
              !.removal = TRUE]

\* mutant: drops the oldest entry instead of the entry with the id
destroyOne_shift(b, toNix) ==
    [b EXCEPT !.log = IF @ = <<>> THEN @ ELSE Tail(@), !.nix = {toNix},
              !.removal = TRUE]

\* destroy() of registerForDelete(Message)
destroyOne(b, toNix) ==
    [b EXCEPT !.log = filterById(@, toNix), !.nix = {toNix},
              !.removal = TRUE]

\* a setTimeout callback runs
FireTimer ==
    /\ timers # <<>>
    /\ timers[NextTimer].due <= now
    /\ LET i == NextTimer
           t == timers[i]
           b0 == [Box EXCEPT !.timers = RemoveAt(timers, i)]
           b == CASE t.kind = "limit" -> registerForDeleteOne(b0, t.ids[1])
                  [] t.kind = "destroyOne" -> destroyOne(b0, t.ids[1])
                  [] t.kind = "destroyArray" -> destroyArray(b0, t.ids)
       IN  /\ SetBox(b)
           /\ ev' = [op |-> t.kind, m |-> 0, app |-> 0, nix |-> b.nix,
                     removal |-> b.removal, seen |-> t.seen,
                     removed |-> Len(log) - Len(b.log)]
    /\ UNCHANGED <<libVars, options, displayMap, pronounCache, msgs, now, ended,
                   appended, clearedAt, firstDone, lastDone>>

\* time passes; a due timer fires before the clock moves on
Tick ==
    /\ now < MaxTime
    /\ \A i \in DOMAIN timers : timers[i].due > now
    /\ now' = now + 1
    /\ ev' = [NoEv EXCEPT !.op = "tick"]
    /\ UNCHANGED <<libVars, options, displayMap, pronounCache, msgs, log, marked,
                   timers, ended, rendered, markedAt, appended, clearedAt,
                   firstDone, lastDone>>

Next ==
    \/ \E u \in Users : Message(u)
    \/ ClearChat
    \/ End
    \/ FireTimer
    \/ Tick

Spec == Init /\ [][Next]_vars

\* the sessions of Init that run under a time limit
TimeInit ==
    /\ InitWith({o \in Options : /\ ~o.pronouns
                                 /\ o.impl = "realChat"
                                 /\ o.limit.type = "time"
                                 /\ o.direction = "down"}, {FALSE})
    /\ LibIdle

\* a due setTimeout callback runs and the clock advances
TimeSpec ==
    TimeInit /\ [][Next]_vars /\ WF_vars(FireTimer) /\ WF_vars(Tick)

\* ------------------------------------------- moderation events
\* client.on('messagedeleted', ...) with state['target-msg-id'] the id of
\* message target, or missing (0).  RealChat adds the listener when
\* onMessageDelete is called; ChatBox does not call it, so the event
\* reaches no hook and the log stays as it is
MessageDeleted(target) ==
    /\ ~ended
    /\ options.impl = "RealChat"
    /\ ev' = [NoEv EXCEPT !.op = "deleted", !.m = target,
                          !.nix = {target} \cap DOMAIN msgs]
    /\ UNCHANGED <<libVars, options, displayMap, pronounCache, msgs, log,
                   marked, timers, now, ended, rendered, markedAt, appended,
                   clearedAt, firstDone, lastDone>>

\* client.on("ban", ...) and client.on("timeout", ...) for user u: the
\* listeners of onUserBan, which ChatBox does not call either
UserBan(u) ==
    /\ ~ended
    /\ options.impl = "RealChat"
    /\ ev' = [NoEv EXCEPT !.op = "ban",
                          !.nix = {x \in DOMAIN msgs : msgs[x].name = u}]
    /\ UNCHANGED <<libVars, options, displayMap, pronounCache, msgs, log,
                   marked, timers, now, ended, rendered, markedAt, appended,
                   clearedAt, firstDone, lastDone>>

\* sessions of the class-based client without pronoun lookup, with no limit
\* or a count limit
ModInit ==
    /\ InitWith({o \in Options : /\ ~o.pronouns
                                 /\ o.impl = "RealChat"
                                 /\ o.limit.type \in {"none", "count"}
                                 /\ o.direction = "down"}, {FALSE})
    /\ LibIdle

ModNext ==
    \/ \E u \in Users : Message(u)
    \/ \E target \in 0..MaxMsgs : MessageDeleted(target)
    \/ \E u \in Users : UserBan(u)
    \/ FireTimer
    \/ Tick

ModSpec == ModInit /\ [][ModNext]_vars

\* the sessions of Init that run under a count limit with a fade
FadeInit ==
    /\ InitWith({o \in Options : /\ ~o.pronouns
                                 /\ o.impl = "realChat"
                                 /\ o.limit.type = "count"
                                 /\ o.limit.fade > 0
                                 /\ o.direction = "down"}, {FALSE})
    /\ LibIdle

\* the session runs on: end() is not called
FadeNext ==
    \/ \E u \in Users : Message(u)
    \/ ClearChat
    \/ FireTimer
    \/ Tick

\* a due setTimeout callback runs and the clock advances
FadeSpec ==
    FadeInit /\ [][FadeNext]_vars /\ WF_vars(FireTimer) /\ WF_vars(Tick)

PronounNext ==
    \/ \E u \in Users : Message(u)
    \/ \E m \in 1..MaxMsgs, r \in Responses : PronounResolve(m, r)
    \/ populatePronounDisplayMap
    \/ ClearChat
    \/ End

PronounSpec == PronounInit /\ [][PronounNext]_vars

\* ---------------------------------------------- SuperBank under calls
\* a SuperBank on its own: the session is not running
NoSession ==
    InitWith({o \in Options : /\ ~o.pronouns
                              /\ o.impl = "realChat"
                              /\ o.limit.type = "none"
                              /\ o.direction = "down"}, {FALSE})

CallAddGlobal(bank) ==
    /\ sb' = addGlobal(sb, bank)
    /\ hist' = [NoHist EXCEPT !.op = "addGlobal", !.bank = bank,
                              !.before = sb]
    /\ UNCHANGED <<chatVars, catalogVars, bl, msgVars>>

CallAddLocals(banks) ==
    /\ sb' = addLocals(sb, banks)
    /\ hist' = [NoHist EXCEPT !.op = "addLocals", !.banks = banks,
                              !.before = sb]
    /\ UNCHANGED <<chatVars, catalogVars, bl, msgVars>>

CallGet(id, channel) ==
    /\ LET r == get(sb, id, channel) IN
        /\ sb' = r.self
        /\ hist' = [NoHist EXCEPT !.op = "get", !.id = id,
                                  !.channel = channel, !.val = r.val,
                                  !.before = sb]
    /\ UNCHANGED <<chatVars, catalogVars, bl, msgVars>>

CallGetAll(channel) ==
    /\ LET r == getAll(sb, channel) IN
        /\ sb' = r.self
        /\ hist' = [NoHist EXCEPT !.op = "getAll", !.channel = channel,
                                  !.all = r.all, !.obj = r.obj,
                                  !.before = sb]
    /\ UNCHANGED <<chatVars, catalogVars, bl, msgVars>>

\* the caller of getAll sets a property of the bank it was handed; the
\* write reaches the SuperBank when that bank is one of its own objects
ModifyReturned(k, v) ==
    /\ hist.op = "getAll"
    /\ hist' = [hist EXCEPT !.op = "modify", !.all = spread(@, k :> v),
                            !.id = k, !.before = sb]
    /\ sb' = IF hist.obj = "global"
             THEN [sb EXCEPT !.global = spread(@, k :> v)]
             ELSE IF hist.obj \in DOMAIN sb.local
             THEN [sb EXCEPT !.local[hist.obj] = spread(@, k :> v)]
             ELSE sb
    /\ UNCHANGED <<chatVars, catalogVars, bl, msgVars>>

BankInit == NoSession /\ LibIdle

BankNext ==
    \/ \E bank \in Patches : CallAddGlobal(bank)
    \/ \E banks \in LocalPatches : CallAddLocals(banks)
    \/ \E id \in BankKeys, channel \in Channels : CallGet(id, channel)
    \/ \E channel \in Channels : CallGetAll(channel)
    \/ \E k \in BankKeys, v \in Imgs : ModifyReturned(k, v)

BankSpec == BankInit /\ [][BankNext]_vars

\* ------------------------------------------- ImageService.populate
\* what the remote catalogs answer when they answer well
TwitchBadges == ("subscriber:0" :> "twitchSub") @@ ("moderator:1" :> "twitchMod")
FfzGlobalEmotes == ("kappa" :> "ffzKappa") @@ ("lul" :> "ffzLul")
BttvGlobalEmotes == ("kappa" :> "bttvKappa") @@ ("pog" :> "bttvPog")
BttvBadges == "bob" :> "bttvBadge"
\* a room of the multi_room answer: its id, whether it has mod_urls, and
\* the emoticons of its set
FfzRoom(c) ==
    [id |-> c, mod_urls |-> c = "a",
     emoticons |-> IF c = "a" THEN "kappa" :> "ffzA" ELSE "pog" :> "ffzB"]

\* how a fetch can end: a good answer, a network error, an answer that
\* does not parse (a room whose set is missing)
Outcomes == {"ok", "fail"}
RoomOutcomes == {"ok", "fail", "badset"}

\* a settled promise
resolved(v) == [ok |-> TRUE, value |-> v]
rejected(v) == [ok |-> FALSE, value |-> v]

\* getAllTwitchBadges(): new SuperBank(bank), or new SuperBank() in .catch
getAllTwitchBadges(o) ==
    IF o = "ok" THEN resolved([global |-> TwitchBadges, local |-> NoLocals])
    ELSE resolved(NewSuperBank)

\* callFFZ(): the parsed bank, or {} in .catch
callFFZ(o) ==
    IF o = "ok" THEN resolved(FfzGlobalEmotes) ELSE resolved(EmptyBank)

getGlobalFFZ(o) == callFFZ(o)

\* mutant: the error of an answer that does not parse escapes the .catch
getChannelFFZs_noCatch(channels, o) ==
    IF o = "ok"
    THEN resolved([emotes |-> [c \in SeqToSet(channels) |->
                                  FfzRoom(c).emoticons],
                   badges |-> NoLocals])
    ELSE IF o = "badset"
    THEN rejected([emotes |-> NoLocals, badges |-> NoLocals])
    ELSE resolved([emotes |-> NoLocals, badges |-> NoLocals])

\* getChannelFFZs(): emoteBank[id] is set for every room; roomBadgeBank is
\* filled but never stored in badgeBank, which stays {}; any error in the
\* chain ends in .catch with two empty banks
getChannelFFZs(channels, o) ==
    IF o = "ok"
    THEN resolved([emotes |-> [c \in SeqToSet(channels) |->
                                  FfzRoom(c).emoticons],
                   badges |-> NoLocals])
    ELSE resolved([emotes |-> NoLocals, badges |-> NoLocals])

getGlobalBTTV(o) ==
    IF o = "ok" THEN resolved(BttvGlobalEmotes) ELSE resolved(EmptyBank)

getBTTVBadges(o) ==
    IF o = "ok" THEN resolved(BttvBadges) ELSE resolved(EmptyBank)

\* populate() resumes after the await of src, which settled as r after
\* outcome o: a rejection ends populate(), otherwise the code up to the
\* next await runs and leaves the service as img
Resume(src, o, r, img, next) ==
    /\ src \in pop.pending
    /\ IF r.ok
       THEN /\ images' = img
            /\ pop' = [pop EXCEPT !.pc = next,
                                  !.pending = IF next = "done" THEN {}
                                              ELSE {next},
                                  !.got[src] = o]
       ELSE /\ images' = images
            /\ pop' = [pop EXCEPT !.pc = "rejected", !.pending = {},
                                  !.got[src] = o]
    /\ UNCHANGED <<chatVars, bankVars, bl, msgVars>>

afterBadges ==
    IF pop.useFfz THEN "ffzGlobal"
    ELSE IF pop.useBttv THEN "bttvGlobal" ELSE "done"

afterFfz == IF pop.useBttv THEN "bttvGlobal" ELSE "done"

\* this._badges = await getAllTwitchBadges()
PopTwitchBadges(o) ==
    LET r == getAllTwitchBadges(o) IN
        Resume("twitchBadges", o, r, [images EXCEPT !.badges = r.value],
               afterBadges)

\* this._emotes.addGlobal(await getGlobalFFZ())
PopGlobalFFZ(o) ==
    LET r == getGlobalFFZ(o) IN
        Resume("ffzGlobal", o, r,
               [images EXCEPT !.emotes = addGlobal(@, r.value)],
               "ffzChannels")

\* let {badges, emotes} = await getChannelFFZs(channel); addLocals twice
PopChannelFFZs(o) ==
    /\ ~pop.each
    /\ LET r == getChannelFFZs(pop.channel, o) IN
           Resume("ffzChannels", o, r,
                  [images EXCEPT !.badges = addLocals(@, r.value.badges),
                                 !.emotes = addLocals(@, r.value.emotes)],
                  afterFfz)

\* getChannelFFZ(channel) of Images.tsx: [emotes, badges] of the room, or
\* [{}, {}] in .catch
getChannelFFZ(c, o) ==
    IF o = "ok"
    THEN [emotes |-> FfzRoom(c).emoticons,
          badges |-> IF FfzRoom(c).mod_urls THEN "moderator:1" :> "ffzMod"
                     ELSE EmptyBank]
    ELSE [emotes |-> EmptyBank, badges |-> EmptyBank]

\* mutant: the results are taken in the order in which the fetches settled
roomResults_byArrival(channel, rooms, order) ==
    [i \in DOMAIN channel |-> getChannelFFZ(order[i], rooms[order[i]])]

\* await Promise.all(channel.map(c => getChannelFFZ(c))): the results in
\* the order of channel, whatever the order the fetches settled in
roomResults(channel, rooms, order) ==
    [i \in DOMAIN channel |-> getChannelFFZ(channel[i], rooms[channel[i]])]

\* _.zipObject(channel, banks)
zipObject(channel, banks) ==
    [c \in SeqToSet(channel) |->
        banks[CHOOSE i \in DOMAIN channel :
                  channel[i] = c /\ \A j \in DOMAIN channel :
                                       channel[j] = c => j <= i]]

\* the fetch of one channel's room settles while populate() of Images.tsx
\* awaits Promise.all
RoomSettles(c, o) ==
    /\ pop.each
    /\ "ffzChannels" \in pop.pending
    /\ c \in DOMAIN pop.rooms
    /\ pop.rooms[c] = "none"
    /\ pop' = [pop EXCEPT !.rooms[c] = o, !.order = Append(@, c)]
    /\ UNCHANGED <<chatVars, bankVars, images, bl, msgVars>>

\* populate() of Images.tsx resumes after Promise.all: _.unzip, addLocals
\* of the zipped badges and emotes
PopChannelFFZ ==
    /\ pop.each
    /\ \A c \in DOMAIN pop.rooms : pop.rooms[c] # "none"
    /\ LET results == roomResults(pop.channel, pop.rooms, pop.order)
           localFfzEmotes == [i \in DOMAIN results |-> results[i].emotes]
           localFfzBadges == [i \in DOMAIN results |-> results[i].badges]
       IN  Resume("ffzChannels", "ok", resolved(results),
                  [images EXCEPT
                      !.badges = addLocals(@, zipObject(pop.channel,
                                                        localFfzBadges)),
                      !.emotes = addLocals(@, zipObject(pop.channel,
                                                        localFfzEmotes))],
                  afterFfz)

\* mutant: getBTTVBadges() is started but not awaited
PopGlobalBTTV_detached(o) ==
    LET r == getGlobalBTTV(o) IN
        /\ "bttvGlobal" \in pop.pending
        /\ images' = [images EXCEPT !.emotes = addGlobal(@, r.value)]
        /\ pop' = [pop EXCEPT !.pc = "done", !.pending = {"bttvBadges"},
                              !.got["bttvGlobal"] = o]
        /\ UNCHANGED <<chatVars, bankVars, bl, msgVars>>

\* this._emotes.addGlobal(await getGlobalBTTV())
PopGlobalBTTV(o) ==
    LET r == getGlobalBTTV(o) IN
        Resume("bttvGlobal", o, r,
               [images EXCEPT !.emotes = addGlobal(@, r.value)],
               "bttvBadges")

\* this._customBadges = await getBTTVBadges()
PopBTTVBadges(o) ==
    LET r == getBTTVBadges(o) IN
        Resume("bttvBadges", o, r, [images EXCEPT !.customBadges = r.value],
               "done")

\* the promise of populate() has resolved: the page sets its preload state
SetPreload ==
    /\ pop.pc = "done"
    /\ ~pop.ready
    /\ pop' = [pop EXCEPT !.ready = TRUE]
    /\ UNCHANGED <<chatVars, bankVars, images, bl, msgVars>>

\* ChatBox is rendered once the preload state is set; its message hook
\* resolves the emotes and badges of a message against the catalog
Enrich ==
    /\ pop.ready
    /\ pop' = [pop EXCEPT !.enriched = TRUE,
                          !.partial = @ \/ pop.pending # {}]
    /\ UNCHANGED <<chatVars, bankVars, images, bl, msgVars>>

\* populate(channel, useFfz, useBttv) has been called on the new service
CatalogInit ==
    /\ NoSession
    /\ BankIdle
    /\ BlacklistIdle
    /\ MsgIdle
    /\ images = NewImages
    /\ pop \in {[NoPopulate EXCEPT !.pc = "twitchBadges",
                                   !.pending = {"twitchBadges"},
                                   !.channel = ch,
                                   !.useFfz = f,
                                   !.useBttv = b] :
                    ch \in {<<"a">>, <<"a", "b">>}, f \in BOOLEAN,
                    b \in BOOLEAN}

CatalogNext ==
    \/ \E o \in Outcomes : PopTwitchBadges(o)
    \/ \E o \in Outcomes : PopGlobalFFZ(o)
    \/ \E o \in RoomOutcomes : PopChannelFFZs(o)
    \/ \E o \in Outcomes : PopGlobalBTTV(o)
    \/ \E o \in Outcomes : PopBTTVBadges(o)
    \/ SetPreload
    \/ Enrich

CatalogSpec == CatalogInit /\ [][CatalogNext]_vars

\* populate of either generation has been called: that of CatalogInit, or
\* populate(channel, true) of Images.tsx, which fetches the room of each
\* channel on its own
PopulateInit ==
    /\ NoSession
    /\ BankIdle
    /\ BlacklistIdle
    /\ MsgIdle
    /\ images = NewImages
    /\ pop \in {[NoPopulate EXCEPT !.pc = "twitchBadges",
                                   !.pending = {"twitchBadges"},
                                   !.channel = ch,
                                   !.useFfz = f,
                                   !.useBttv = b] :
                    ch \in {<<"a">>, <<"a", "b">>}, f \in BOOLEAN,
                    b \in BOOLEAN}
               \cup {[NoPopulate EXCEPT
                          !.pc = "twitchBadges",
                          !.pending = {"twitchBadges"},
                          !.channel = ch,
                          !.useFfz = TRUE,
                          !.each = TRUE,
                          !.rooms = [c \in SeqToSet(ch) |-> "none"]] :
                      ch \in {<<"a">>, <<"a", "b">>, <<"b", "a">>}}

PopulateNext ==
    \/ CatalogNext
    \/ \E c \in Channels, o \in RoomOutcomes : RoomSettles(c, o)
    \/ PopChannelFFZ

PopulateSpec == PopulateInit /\ [][PopulateNext]_vars

\* ------------------------------------------------ blacklist verdicts
\* the names a sender or a literal blacklist entry can be: the strings of
\* one to MaxName letters
Letters == {"b", "o", "B"}
Names == UNION {[1..n -> Letters] : n \in 1..MaxName}

\* options whose blacklist names the one literal user entry e
userBlacklist(e) ==
    [blacklist |-> [users |-> <<e>>, prefixes |-> <<>>, includes |-> <<>>,
                    matches |-> <<>>]]

\* isBlacklistUser(opts, this.name) is evaluated
CheckUser ==
    /\ bl.verdict = "unchecked"
    /\ bl' = [bl EXCEPT !.verdict =
                 IF isBlacklistUser(userBlacklist(bl.entry), bl.user)
                 THEN "suppressed" ELSE "shown"]
    /\ UNCHANGED <<chatVars, bankVars, catalogVars, msgVars>>

\* a message of some sender is about to be checked against some entry
BlacklistInit ==
    /\ NoSession
    /\ BankIdle
    /\ CatalogIdle
    /\ MsgIdle
    /\ bl \in [user : Names, entry : Names, verdict : {"unchecked"}]

BlacklistNext == CheckUser

BlacklistSpec == BlacklistInit /\ [][BlacklistNext]_vars

\* ---------------------------------------- blacklist verdicts on content
\* the texts a message can be: the strings of one to MaxName letters and
\* spaces
Texts == UNION {[1..n -> Letters \cup {" "}] : n \in 1..MaxName}

\* options whose blacklist names the one entry e in the given list
contentBlacklist(list, e) ==
    [blacklist |-> [users |-> <<>>,
                    prefixes |-> IF list = "prefixes" THEN <<e>> ELSE <<>>,
                    includes |-> IF list = "includes" THEN <<e>> ELSE <<>>,
                    matches |-> <<>>]]

\* isBlacklistMessage(opts, this.message) is evaluated
CheckMessage ==
    /\ bm.list # "none"
    /\ bm.verdict = "unchecked"
    /\ bm' = [bm EXCEPT !.verdict =
                 IF isBlacklistMessage(contentBlacklist(bm.list, bm.entry),
                                       bm.text)
                 THEN "suppressed" ELSE "shown"]
    /\ UNCHANGED <<chatVars, bankVars, catalogVars, bl, tm, am, bot>>

\* a message text is about to be checked against a prefix or a word
ContentInit ==
    /\ NoSession
    /\ BankIdle
    /\ CatalogIdle
    /\ BlacklistIdle
    /\ TwitchIdle
    /\ HtmlIdle
    /\ BotIdle
    /\ bm \in [text : Texts, entry : Names, list : {"prefixes", "includes"},
               verdict : {"unchecked"}]

ContentNext == CheckMessage

ContentSpec == ContentInit /\ [][ContentNext]_vars

\* ---------------------------------------------- Twitch message fields
\* tags is an object: a function from the tag names it holds to their
\* values; a string tag is a string of characters, a flag a boolean, badges
\* and badge-info objects of their own
has(o, k) == k \in DOMAIN o

\* tags[k] of a string tag, undefined read as falsy like the empty string
tag(o, k) == IF k \in DOMAIN o THEN o[k] ELSE <<>>

\* tags[k] || false of a flag
flag(o, k) == IF k \in DOMAIN o THEN o[k] ELSE FALSE

\* tags[k]?.subscriber of badges and badge-info
sub(o, k) == IF k \in DOMAIN o /\ "subscriber" \in DOMAIN o[k]
             THEN <<o[k].subscriber>> ELSE <<>>

Digits == <<"0", "1", "2", "3", "4", "5", "6", "7", "8", "9">>

HexDigits ==
    <<"0", "1", "2", "3", "4", "5", "6", "7", "8", "9", "a", "b", "c", "d",
      "e", "f">>

digitValue(c) == (CHOOSE i \in DOMAIN Digits : Digits[i] = c) - 1

\* parseInt of a non-empty string of decimal digits
RECURSIVE parseInt(_)
parseInt(s) ==
    IF Len(s) = 1 THEN digitValue(s[1])
    ELSE 10 * parseInt(SubSeq(s, 1, Len(s) - 1)) + digitValue(s[Len(s)])

\* String.prototype.charCodeAt of the letters names are made of
charCode(c) ==
    CASE c = "b" -> 98
      [] c = "o" -> 111
      [] c = "B" -> 66

\* hash << 5 on a signed 32-bit integer: the low 27 bits move up, bit 26
\* becomes the sign
shiftLeft5(hash) ==
    LET low == hash % 134217728
    IN  IF low >= 67108864 THEN (low - 134217728) * 32 ELSE low * 32

\* ((hash << 5) - hash) + char, then hash & hash: the sum is exact, the
\* bitwise and brings it back to a signed 32-bit integer.  The sum is
\* added up in 16-bit halves, as it can leave the 32-bit range.
toInt32(shifted, hash, char) ==
    LET lo == (shifted % 65536) - (hash % 65536) + char
        hi == (shifted \div 65536) - (hash \div 65536) + (lo \div 65536)
        h16 == hi % 65536
    IN  (IF h16 >= 32768 THEN h16 - 65536 ELSE h16) * 65536 + (lo % 65536)

\* the loop of createColor over the first n characters of name
RECURSIVE hashOf(_, _)
hashOf(name, n) ==
    IF n = 0 THEN 0
    ELSE LET hash == hashOf(name, n - 1)
         IN  toInt32(shiftLeft5(hash), hash, charCode(name[n]))

\* Number.prototype.toString(16) of a non-negative integer
RECURSIVE toString16(_)
toString16(h) ==
    IF h < 16 THEN <<HexDigits[h + 1]>>
    ELSE Append(toString16(h \div 16), HexDigits[(h % 16) + 1])

\* _.padStart(s, length, ch)
RECURSIVE padStart(_, _, _)
padStart(s, length, ch) ==
    IF Len(s) >= length THEN s ELSE padStart(<<ch>> \o s, length, ch)

\* mutant: the hex string is not padded
createColor_noPad(name) ==
    <<"#">> \o toString16(hashOf(name, Len(name)) % 16777216)

\* hash & 0xFFFFFF keeps the low 24 bits, of a negative hash too
createColor(name) ==
    <<"#">> \o padStart(toString16(hashOf(name, Len(name)) % 16777216), 6, "0")

\* mutant: the tier 2 threshold is tested first
subMonthsOf_secondFirst(tags) ==
    IF flag(tags, "subscriber") /\ sub(tags, "badges") # <<>>
    THEN LET badge == parseInt(sub(tags, "badges")[1])
             info == sub(tags, "badge-info")
         IN  <<[badge |-> IF badge >= 2000 THEN badge - 2000 ELSE badge,
                tier |-> IF badge >= 2000 THEN 2 ELSE 1,
                total |-> parseInt(IF info = <<>> \/ info[1] = <<>>
                                   THEN <<"0">> ELSE info[1])]>>
    ELSE <<>>

\* this.subMonths as the constructor leaves it: <<>> when it stays
\* undefined, else the one object
subMonthsOf(tags) ==
    IF flag(tags, "subscriber") /\ sub(tags, "badges") # <<>>
    THEN LET badge == parseInt(sub(tags, "badges")[1])
             info == sub(tags, "badge-info")
         IN  <<[badge |-> IF badge >= 3000 THEN badge - 3000
                          ELSE IF badge >= 2000 THEN badge - 2000 ELSE badge,
                tier |-> IF badge >= 3000 THEN 3
                         ELSE IF badge >= 2000 THEN 2 ELSE 1,
                total |-> parseInt(IF info = <<>> \/ info[1] = <<>>
                                   THEN <<"0">> ELSE info[1])]>>
    ELSE <<>>

Prime == <<"P", "r", "i", "m", "e">>
Plan1000 == <<"1", "0", "0", "0">>
Plan2000 == <<"2", "0", "0", "0">>
Plan3000 == <<"3", "0", "0", "0">>

\* mutant: an unknown plan code is read as tier 3
levelOf_defaultThree(tags) ==
    LET plan == tag(tags, "msg-param-sub-plan")
    IN  IF plan = Prime THEN "prime"
        ELSE IF plan = Plan2000 THEN "2"
        ELSE IF plan = Plan3000 THEN "3" ELSE "3"

\* the switch of the SubMessage constructor; the numbers 1, 2, 3 are
\* written "1", "2", "3" beside "prime"
levelOf(tags) ==
    LET plan == tag(tags, "msg-param-sub-plan")
    IN  IF plan = Prime THEN "prime"
        ELSE IF plan = Plan2000 THEN "2"
        ELSE IF plan = Plan3000 THEN "3" ELSE "1"

\* tags['display-name'] || tags.username is undefined
nameless(tags) == tag(tags, "display-name") = <<>> /\ ~has(tags, "username")

\* mutant: tags.badges.partner is read without the optional chaining
raises_unguarded(tags) ==
    \/ tag(tags, "color") = <<>> /\ nameless(tags)
    \/ ~has(tags, "badges")

\* the constructor throws a TypeError: the one place is name.length in
\* createColor(undefined); tags.badges and tags['badge-info'] are read
\* through ?.
raises(tags) == tag(tags, "color") = <<>> /\ nameless(tags)

\* id || uuid(): a generated id is written "uuid"
idOf(tags) == IF tag(tags, "id") # <<>> THEN tag(tags, "id") ELSE <<"uuid">>

\* tags['tmi-sent-ts'] ? parseInt(...) : undefined, then
\* timestamp || Date.now()
timestampOf(tags) ==
    IF tag(tags, "tmi-sent-ts") # <<>> /\ parseInt(tag(tags, "tmi-sent-ts")) # 0
    THEN [from |-> "tags", ms |-> parseInt(tag(tags, "tmi-sent-ts"))]
    ELSE [from |-> "now", ms |-> 0]

\* the fields the AbstractTwitchMessage constructor sets; hash is the hash
\* createColor ended its loop with
twitchFields(tags) ==
    LET name == IF tag(tags, "display-name") # <<>>
                THEN tag(tags, "display-name") ELSE tag(tags, "username")
    IN  [NoFields EXCEPT
            !.id = idOf(tags),
            !.timestamp = timestampOf(tags),
            !.partner = has(tags, "badges")
                        /\ "partner" \in DOMAIN tags["badges"],
            !.name = name,
            !.color = IF tag(tags, "color") # <<>> THEN tag(tags, "color")
                      ELSE createColor(name),
            !.hash = IF tag(tags, "color") # <<>> THEN 0
                     ELSE hashOf(name, Len(name)),
            !.mod = flag(tags, "mod"),
            !.sub = flag(tags, "subscriber"),
            !.broadcaster = has(tags, "badges")
                            /\ "broadcaster" \in DOMAIN tags["badges"],
            !.subMonths = subMonthsOf(tags)]

\* the fields the SubMessage constructor adds
subFields(tags) ==
    LET months == tag(tags, "msg-param-cumulative-months")
    IN  [twitchFields(tags) EXCEPT
            !.prime = levelOf(tags) = "prime",
            !.level = levelOf(tags),
            !.resub = months # <<>>,
            !.cumulative = IF months # <<>> THEN <<parseInt(months)>>
                           ELSE <<>>]

\* new ChatMessage(channel, tags, message)
NewChatMessage ==
    /\ tm.pc = "tags"
    /\ tm' = IF raises(tm.tags) THEN [tm EXCEPT !.pc = "raised"]
             ELSE [tm EXCEPT !.pc = "built", !.class = "chat",
                             !.fields = twitchFields(tm.tags)]
    /\ UNCHANGED <<chatVars, bankVars, catalogVars, bl, bm, am, bot>>

\* new SubMessage(channel, userstate, message)
NewSubMessage ==
    /\ tm.pc = "tags"
    /\ tm' = IF raises(tm.tags) THEN [tm EXCEPT !.pc = "raised"]
             ELSE [tm EXCEPT !.pc = "built", !.class = "sub",
                             !.fields = subFields(tm.tags)]
    /\ UNCHANGED <<chatVars, bankVars, catalogVars, bl, bm, am, bot>>

\* String.prototype.split on a separator of one character
RECURSIVE split(_, _)
split(s, sep) ==
    IF \A i \in DOMAIN s : s[i] # sep THEN <<s>>
    ELSE LET i == CHOOSE x \in DOMAIN s :
                      s[x] = sep /\ \A y \in 1..(x - 1) : s[y] # sep
         IN  <<SubSeq(s, 1, i - 1)>> \o split(SubSeq(s, i + 1, Len(s)), sep)

LowerChar(c) == IF c = "B" THEN "b" ELSE c

toLowerCase(s) == [i \in DOMAIN s |-> LowerChar(s[i])]

\* the name given to a subscriber badge; the words of a badge name are
\* written as one element each
subscriberName(version, subMonths) ==
    <<"subscriber", " ", "subscriber", "-">> \o version
        \o <<" ", "subscriber", "-", "tier", "-">>
        \o <<Digits[(IF subMonths = <<>> THEN 0 ELSE subMonths[1].tier) + 1]>>

\* the name given to any other badge
badgeName(badgeId, version) == badgeId \o <<" ">> \o badgeId \o <<"-">> \o version

\* the entry of one id of badges-raw in finalBadges: <<>> when no badge
\* is pushed; img is the image the entry spreads, name the name it is given
badgeOf(badges, channel, id, subMonths) ==
    LET badgeId == split(id, "/")[1]
        version == split(id, "/")[2]
        key == badgeId \o <<":">>
                   \o (IF badgeId = <<"subscriber">> THEN <<"0">> ELSE version)
        found == get(badges, key, channel).val
    IN  IF ~truthy(found) THEN <<>>
        ELSE <<[img |-> found,
                name |-> IF badgeId = <<"subscriber">>
                         THEN subscriberName(version, subMonths)
                         ELSE badgeName(badgeId, version)]>>

\* the loop of resolveBadges over rawIds from the k-th id on
RECURSIVE finalBadges(_, _, _, _, _)
finalBadges(badges, channel, rawIds, subMonths, k) ==
    IF k > Len(rawIds) THEN <<>>
    ELSE badgeOf(badges, channel, rawIds[k], subMonths)
             \o finalBadges(badges, channel, rawIds, subMonths, k + 1)

\* resolveBadges(badges) of the class-based client: this.badges; custom is
\* ImageService._customBadges, an image of it keeps the name it has
resolveBadges(badges, custom, channel, tags, fields) ==
    LET listed == IF has(tags, "badges-raw")
                  THEN finalBadges(badges, channel,
                                   split(tags["badges-raw"], ","),
                                   fields.subMonths, 1)
                  ELSE <<>>
        customBadge == prop(custom, toLowerCase(fields.name))
    IN  IF truthy(customBadge)
        THEN <<[img |-> customBadge, name |-> <<customBadge>>]>> \o listed
        ELSE listed

\* the entry of one id in resolveBadges(preload) of Client.tsx: the spread
\* of preload.badges[key], which may be undefined, and a name
preloadBadgeOf(badges, id, subMonths) ==
    LET badgeId == split(id, "/")[1]
        version == split(id, "/")[2]
        key == badgeId \o <<":">>
                   \o (IF badgeId = <<"subscriber">> THEN <<"0">> ELSE version)
    IN  <<[img |-> prop(badges, key),
           name |-> IF badgeId = <<"subscriber">>
                    THEN subscriberName(version, subMonths)
                    ELSE badgeName(badgeId, version)]>>

RECURSIVE preloadBadges(_, _, _, _)
preloadBadges(badges, rawIds, subMonths, k) ==
    IF k > Len(rawIds) THEN <<>>
    ELSE preloadBadgeOf(badges, rawIds[k], subMonths)
             \o preloadBadges(badges, rawIds, subMonths, k + 1)

\* resolveBadges(preload) of Client.tsx: this.badges
resolveBadgesPreload(badges, tags, fields) ==
    IF has(tags, "badges-raw")
    THEN preloadBadges(badges, split(tags["badges-raw"], ","),
                       fields.subMonths, 1)
    ELSE <<>>

\* message.resolveBadges(Images.badges); getCustomBadge throws on a name
\* that is undefined
ResolveBadges ==
    /\ tm.pc = "built"
    /\ tm.op = "none"
    /\ tm' = [tm EXCEPT
                 !.op = IF nameless(tm.tags) THEN "raised"
                        ELSE "resolveBadges",
                 !.badges = resolveBadges([global |-> tm.bank,
                                           local |-> NoLocals],
                                          tm.customBadges, "a", tm.tags,
                                          tm.fields)]
    /\ UNCHANGED <<chatVars, bankVars, catalogVars, bl, bm, am, bot>>

\* message.resolveBadges(preload) of Client.tsx
ResolveBadgesPreload ==
    /\ tm.pc = "built"
    /\ tm.op = "none"
    /\ tm' = [tm EXCEPT
                 !.op = "resolveBadgesPreload",
                 !.badges = resolveBadgesPreload(tm.bank, tm.tags, tm.fields)]
    /\ UNCHANGED <<chatVars, bankVars, catalogVars, bl, bm, am, bot>>

\* the id/version pairs of badges-raw, and the lists of up to MaxBadges
BadgePairs ==
    {<<"subscriber", "/", "5">>, <<"moderator", "/", "1">>,
     <<"vip", "/", "1">>}

RECURSIVE RawBadges(_)
RawBadges(n) ==
    IF n = 1 THEN BadgePairs
    ELSE RawBadges(n - 1)
         \cup {l \o <<",">> \o pair : l \in RawBadges(n - 1), pair \in BadgePairs}

\* the badge banks: any of three badges is held or not
BadgeBanks ==
    {[k \in d |-> IF k = <<"subscriber", ":", "0">> THEN "star"
                  ELSE IF k = <<"moderator", ":", "1">> THEN "sword"
                  ELSE "gem"] :
         d \in SUBSET {<<"subscriber", ":", "0">>, <<"moderator", ":", "1">>,
                       <<"vip", ":", "1">>}}

\* tags with a list of badges, of a subscriber of tier 2 and of others
BadgeTags ==
    {("display-name" :> Bob) @@ ("badges-raw" :> raw) @@ s :
         raw \in RawBadges(MaxBadges),
         s \in {NoTags,
                ("subscriber" :> TRUE)
                    @@ ("badges" :> [subscriber |-> <<"2", "0", "0", "5">>])}}
    \cup {"display-name" :> Bob}

\* the sender names the color is derived from
ColorNames == UNION {[1..n -> Letters] : n \in 1..MaxColorName}

Red == <<"#", "F", "F", "0", "0", "0", "0">>

\* the raw values of a subscriber badge
BadgeValues ==
    {<<"0">>, <<"5">>, <<"1", "5", "0">>, <<"1", "9", "9", "9">>,
     <<"2", "0", "0", "0">>, <<"2", "0", "0", "5">>, <<"2", "9", "9", "9">>,
     <<"3", "0", "0", "0">>, <<"3", "0", "0", "2">>, <<"3", "1", "5", "0">>}

\* tags of senders of every name, with and without a color of their own
ColorTags ==
    {("display-name" :> n) @@ c :
         n \in ColorNames, c \in {NoTags, "color" :> Red}}
    \cup {"username" :> n : n \in Names}

\* tags of subscribers and others, with and without a subscriber badge
SubscriberTags ==
    {("display-name" :> Bob) @@ s @@ b @@ i :
         s \in {NoTags, "subscriber" :> TRUE, "subscriber" :> FALSE},
         b \in {NoTags, "badges" :> [broadcaster |-> <<"1">>]}
               \cup {"badges" :> [subscriber |-> v] : v \in BadgeValues},
         i \in {NoTags, "badge-info" :> [subscriber |-> <<"7">>]}}

\* the userstate of subscription notices
PlanTags ==
    {("display-name" :> Bob) @@ plan @@ months :
         plan \in {NoTags}
                  \cup {"msg-param-sub-plan" :> x :
                            x \in {Prime, Plan1000, Plan2000, Plan3000}},
         months \in {NoTags}
                    \cup {"msg-param-cumulative-months" :> x :
                              x \in {<<"1">>, <<"1", "2">>}}}

\* ------------------------------------------------ message html, emotes
\* A message is a string of characters; two pieces of an <img> tag are
\* written as one element each: "<img" stands for the tag up to the quote
\* that opens its alt attribute, "\">" for the quote and the bracket that
\* close the tag.  Neither holds a word character at its inner end.
\* imageToHTML(img), img.name being name
imageToHTML(name) == <<"<img">> \o name \o <<"\">">>

\* the element ends with the character >
closes(c) == c \in {">", "\">"}

\* mutant: the regex /<img.*>/g, greedy
RECURSIVE stripImg_greedy(_)
stripImg_greedy(s) ==
    IF s = <<>> THEN <<>>
    ELSE IF Head(s) = "<img" /\ \E j \in 2..Len(s) : closes(s[j])
    THEN LET j == CHOOSE x \in 2..Len(s) :
                      closes(s[x]) /\ \A y \in (x + 1)..Len(s) : ~closes(s[y])
         IN  stripImg_greedy(SubSeq(s, j + 1, Len(s)))
    ELSE <<Head(s)>> \o stripImg_greedy(Tail(s))

\* msg.replaceAll(/<img.*?>/g, ""): every match runs from <img to the
\* first > after it, and the scan goes on behind the match
RECURSIVE stripImg(_)
stripImg(s) ==
    IF s = <<>> THEN <<>>
    ELSE IF Head(s) = "<img" /\ \E j \in 2..Len(s) : closes(s[j])
    THEN LET j == CHOOSE x \in 2..Len(s) :
                      closes(s[x]) /\ \A y \in 2..(x - 1) : ~closes(s[y])
         IN  stripImg(SubSeq(s, j + 1, Len(s)))
    ELSE <<Head(s)>> \o stripImg(Tail(s))

\* String.prototype.trim
RECURSIVE trim(_)
trim(s) ==
    IF s = <<>> THEN s
    ELSE IF Head(s) = " " THEN trim(Tail(s))
    ELSE IF s[Len(s)] = " " THEN trim(SubSeq(s, 1, Len(s) - 1))
    ELSE s

isEmoteOnly(msg) == Len(trim(stripImg(msg))) = 0

\* /^<img.*?>$/.test(msg): the lazy .*? is extended until the > it is
\* followed by is the last character of msg
isOneEmoteOnly(msg) ==
    Len(msg) >= 2 /\ msg[1] = "<img" /\ closes(msg[Len(msg)])

\* the fields the AbstractMessage constructor derives from its message
construct(m, message) ==
    [m EXCEPT !.message = message,
              !.emoteOnly = isEmoteOnly(message),
              !.isOneEmoteOnly = isEmoteOnly(message) /\ isOneEmoteOnly(message)]

\* mutant: the message is assigned and the flags are left as they are
setMessage_keepFlags(m, message) ==
    [m EXCEPT !.message = message]

setMessage(m, message) ==
    [m EXCEPT !.message = message,
              !.emoteOnly = isEmoteOnly(message),
              !.isOneEmoteOnly = isEmoteOnly(message) /\ isOneEmoteOnly(message)]

\* the replacement of one character in the first loop of resolveEmotes
escape(char) ==
    IF char = "<" THEN <<"&", "l", "t", ";">>
    ELSE IF char = ">" THEN <<"&", "g", "t", ";">>
    ELSE <<char>>

\* raw.substring(idx, end + 1), positions counted from 1: an end behind
\* the text is taken as the end of the text, and an end before the start
\* swaps the two arguments
substring(raw, idx, end) ==
    IF end >= idx - 1
    THEN SubSeq(raw, idx, IF end > Len(raw) THEN Len(raw) ELSE end)
    ELSE SubSeq(raw, end + 1, idx - 1)

\* mutant: the characters are copied as they are
RECURSIVE copyRaw_noEscape(_, _, _)
copyRaw_noEscape(raw, emotesFromTwitch, idx) ==
    IF idx > Len(raw) THEN <<>>
    ELSE IF idx \in DOMAIN emotesFromTwitch
    THEN LET end == emotesFromTwitch[idx]
         IN  imageToHTML(substring(raw, idx, end))
                 \o copyRaw_noEscape(raw, emotesFromTwitch, end + 1)
    ELSE <<raw[idx]>> \o copyRaw_noEscape(raw, emotesFromTwitch, idx + 1)

\* the first loop of resolveEmotes from idx on; emotesFromTwitch maps the
\* start of a transport emote to its end, positions counted from 1
RECURSIVE copyRaw(_, _, _)
copyRaw(raw, emotesFromTwitch, idx) ==
    IF idx > Len(raw) THEN <<>>
    ELSE IF idx \in DOMAIN emotesFromTwitch
    THEN LET end == emotesFromTwitch[idx]
         IN  imageToHTML(substring(raw, idx, end))
                 \o copyRaw(raw, emotesFromTwitch, end + 1)
    ELSE escape(raw[idx]) \o copyRaw(raw, emotesFromTwitch, idx + 1)

\* html.replaceAll(new RegExp("\\b" + emote + "\\b", "g"), tag), from
\* position i on
RECURSIVE replaceAll(_, _, _, _)
replaceAll(html, emote, tagHtml, i) ==
    IF i > Len(html) THEN <<>>
    ELSE IF wordAt(html, emote, i)
    THEN tagHtml \o replaceAll(html, emote, tagHtml, i + Len(emote))
    ELSE <<html[i]>> \o replaceAll(html, emote, tagHtml, i + 1)

\* the second loop of resolveEmotes over the keys of the channel's bank,
\* in the order for ... in visits them, from the k-th on
RECURSIVE substitute(_, _, _)
substitute(html, emotesForChannel, k) ==
    IF k > Len(emotesForChannel) THEN html
    ELSE substitute(replaceAll(html, emotesForChannel[k],
                               imageToHTML(emotesForChannel[k]), 1),
                    emotesForChannel, k + 1)

\* the html resolveEmotes hands to setMessage
resolveEmotes(raw, emotesFromTwitch, emotesForChannel) ==
    substitute(copyRaw(raw, emotesFromTwitch, 1), emotesForChannel, 1)

HtmlChars == {"<img", "\">", " ", "a"}
RawChars == {"h", "<", ">", "3", " "}

\* the html a message can be constructed with, and the text chatters type
Htmls == UNION {[1..n -> HtmlChars] : n \in 0..MaxHtml}
RawTexts == UNION {[1..n -> RawChars] : n \in 1..MaxRaw}

\* the html handed to setMessage: nothing, a text, one tag, two tags
Replacements ==
    {<<>>, <<"h">>, imageToHTML(<<"a">>),
     imageToHTML(<<"a">>) \o <<" ">> \o imageToHTML(<<"a">>)}

Heart == <<"<", "3">>

\* the keys of emotes.getAll(channel)
EmoteBanks == {<<>>, <<Heart>>, <<(<<"h">>), (<<"l", "t">>)>>}

NoRanges == [i \in {} |-> 0]

\* tags.emotes: no transport emote, or one over the first two characters
Ranges(raw) == {NoRanges} \cup (IF Len(raw) >= 2 THEN {1 :> 2} ELSE {})

\* new AbstractMessage(message, id, timestamp)
NewMessage ==
    /\ am.pc = "new"
    /\ am' = [construct(am, am.arg) EXCEPT !.pc = "built", !.op = "new",
                                          !.arg = <<>>]
    /\ UNCHANGED <<chatVars, bankVars, catalogVars, bl, bm, tm, bot>>

\* message.setMessage(html)
SetMessage(html) ==
    /\ am.pc = "built"
    /\ am' = [setMessage(am, html) EXCEPT !.op = "setMessage"]
    /\ UNCHANGED <<chatVars, bankVars, catalogVars, bl, bm, tm, bot>>

\* message.resolveEmotes(emotes), on a message that holds text as typed
ResolveEmotes ==
    /\ am.pc = "built"
    /\ am.message \in RawTexts
    /\ am' = [setMessage(am, resolveEmotes(am.message, am.emotes, am.bank))
                 EXCEPT !.op = "resolveEmotes", !.raw = am.message]
    /\ UNCHANGED <<chatVars, bankVars, catalogVars, bl, bm, tm, bot>>

\* a message is about to be constructed, with html or with the text of a
\* chat line, its emote tag and the emote bank of its channel
HtmlInit ==
    /\ NoSession
    /\ BankIdle
    /\ CatalogIdle
    /\ BlacklistIdle
    /\ ContentIdle
    /\ TwitchIdle
    /\ BotIdle
    /\ am \in {[NoHtml EXCEPT !.pc = "new", !.arg = h] : h \in Htmls}
              \cup UNION {{[NoHtml EXCEPT !.pc = "new", !.arg = raw,
                                          !.emotes = e, !.bank = b] :
                               e \in Ranges(raw), b \in EmoteBanks} :
                              raw \in RawTexts}

HtmlNext ==
    \/ NewMessage
    \/ \E html \in Replacements : SetMessage(html)
    \/ ResolveEmotes

HtmlSpec == HtmlInit /\ [][HtmlNext]_vars

\* -------------------------------------- Twitch messages from sparse tags
\* the positions of one emote id: each is "start-end", counted from 0; the
\* map is kept with positions counted from 1
RECURSIVE rangesOf(_)
rangesOf(positions) ==
    IF positions = <<>> THEN NoRanges
    ELSE LET range == split(positions[Len(positions)], "-")
         IN  ((parseInt(range[1]) + 1) :> (parseInt(range[2]) + 1))
                 @@ rangesOf(SubSeq(positions, 1, Len(positions) - 1))

\* parseTwitchEmoteObj(tags.emotes): the tag is absent, or the positions of
\* one emote id
parseTwitchEmoteObj(tags) ==
    IF has(tags, "emotes") THEN rangesOf(tags["emotes"]) ELSE NoRanges

\* message.resolveEmotes(emotes) on a Twitch message, the channel's bank
\* being empty
ResolveTagEmotes ==
    /\ tm.pc = "built"
    /\ tm.op = "none"
    /\ tm' = [tm EXCEPT
                 !.op = "resolveEmotes",
                 !.html = resolveEmotes(tm.message,
                                        parseTwitchEmoteObj(tm.tags), <<>>)]
    /\ UNCHANGED <<chatVars, bankVars, catalogVars, bl, bm, am, bot>>

\* a value for each of the tags a message may come without
FullTags ==
    ("color" :> Red)
        @@ ("badges" :> [partner |-> <<"1">>, subscriber |-> <<"5">>])
        @@ ("badge-info" :> [subscriber |-> <<"7">>])
        @@ ("badges-raw" :> <<"vip", "/", "1">>)
        @@ ("emotes" :> << <<"0", "-", "1">> >>)
        @@ ("id" :> <<"m", "1">>)
        @@ ("tmi-sent-ts" :> <<"7">>)

\* tags of a named sender that hold any of these tags and lack the others
SparseTags ==
    {("display-name" :> Bob) @@ s @@ [k \in d |-> FullTags[k]] :
         s \in {NoTags, "subscriber" :> TRUE}, d \in SUBSET (DOMAIN FullTags)}

\* tags that name no sender
NamelessTags == {"mod" :> TRUE, "color" :> Red}

\* tags have arrived and a message is about to be constructed from them
TwitchInit ==
    /\ NoSession
    /\ BankIdle
    /\ CatalogIdle
    /\ BlacklistIdle
    /\ ContentIdle
    /\ HtmlIdle
    /\ BotIdle
    /\ tm \in {[NoTwitch EXCEPT !.pc = "tags", !.tags = t] :
                  t \in ColorTags \cup SubscriberTags \cup PlanTags}
              \cup {[NoTwitch EXCEPT !.pc = "tags", !.tags = t, !.bank = b,
                                     !.customBadges = c] :
                        t \in BadgeTags, b \in BadgeBanks,
                        c \in {EmptyBank, <<"b", "o", "b">> :> "crown"}}
              \cup {[NoTwitch EXCEPT !.pc = "tags", !.tags = t,
                                     !.bank = <<"vip", ":", "1">> :> "gem",
                                     !.customBadges = c,
                                     !.message = <<"h", "<", "3">>] :
                        t \in SparseTags \cup NamelessTags,
                        c \in {EmptyBank, <<"b", "o", "b">> :> "crown"}}

TwitchNext ==
    \/ NewChatMessage
    \/ NewSubMessage
    \/ ResolveBadges
    \/ ResolveBadgesPreload
    \/ ResolveTagEmotes

TwitchSpec == TwitchInit /\ [][TwitchNext]_vars

\* --------------------------------------- resolveEmotes, step by step
\* the text of a chat line
ScanTexts == UNION {[1..n -> {"h", "<"}] : n \in 1..MaxScan}

\* parseTwitchEmoteObj(tags.emotes) for any tag: a start (counted from 1)
\* is mapped to the end its range names, which may lie before the start,
\* inside another range or behind the text
ScanRanges(raw) ==
    UNION {[starts -> 1..(Len(raw) + 1)] : starts \in SUBSET (DOMAIN raw)}

\* one pass of while (idx < raw.length) { ... }
ScanStep ==
    /\ am.pc = "scan"
    /\ am.idx <= Len(am.raw)
    /\ am.steps < MaxSteps
    /\ am' = IF am.idx \in DOMAIN am.emotes
             THEN [am EXCEPT
                      !.html = @ \o imageToHTML(substring(am.raw, am.idx,
                                                          am.emotes[am.idx])),
                      !.idx = am.emotes[am.idx] + 1,
                      !.steps = @ + 1]
             ELSE [am EXCEPT !.html = @ \o escape(am.raw[am.idx]),
                             !.idx = @ + 1,
                             !.steps = @ + 1]
    /\ UNCHANGED <<chatVars, bankVars, catalogVars, bl, bm, tm, bot>>

\* the loop is left: the channel's emotes are substituted and the html is
\* handed to setMessage
ScanEnd ==
    /\ am.pc = "scan"
    /\ am.idx > Len(am.raw)
    /\ am' = [setMessage(am, substitute(am.html, am.bank, 1))
                 EXCEPT !.pc = "built", !.op = "resolveEmotes"]
    /\ UNCHANGED <<chatVars, bankVars, catalogVars, bl, bm, tm, bot>>

\* resolveEmotes has been called on a message with the text of a chat line
ScanInit ==
    /\ NoSession
    /\ BankIdle
    /\ CatalogIdle
    /\ BlacklistIdle
    /\ ContentIdle
    /\ TwitchIdle
    /\ BotIdle
    /\ am \in UNION {{[construct(NoHtml, raw) EXCEPT
                           !.pc = "scan", !.raw = raw, !.emotes = e,
                           !.idx = 1, !.op = "new"] :
                          e \in ScanRanges(raw)} : raw \in ScanTexts}

ScanNext ==
    \/ ScanStep
    \/ ScanEnd

ScanSpec == ScanInit /\ [][ScanNext]_vars

\* ------------------------------------------------------ the command Bot
\* A chat line is a string whose command words are written as one element
\* each.  options.commands is false, true or a string.
MAX_CHANNELS == 5

CommandsOff == [kind |-> "false", value |-> <<>>]
CommandsOn == [kind |-> "true", value |-> <<>>]
CommandsWith(prefix) == [kind |-> "string", value |-> prefix]

\* if (options.commands): the empty string is falsy
enabled_commands(c) ==
    c.kind = "true" \/ (c.kind = "string" /\ c.value # <<>>)

\* _.isString(options.commands) ? options.commands : "!"
prefixOf(c) == IF c.kind = "string" THEN c.value ELSE <<"!">>

\* String.prototype.split(/\s+/)
RECURSIVE splitSpaces(_)
splitSpaces(s) ==
    IF \A i \in DOMAIN s : s[i] # " " THEN <<s>>
    ELSE LET i == CHOOSE x \in DOMAIN s :
                      s[x] = " " /\ \A y \in 1..(x - 1) : s[y] # " "
             j == CHOOSE x \in i..Len(s) :
                      /\ \A y \in i..x : s[y] = " "
                      /\ (x = Len(s) \/ s[x + 1] # " ")
         IN  <<SubSeq(s, 1, i - 1)>> \o splitSpaces(SubSeq(s, j + 1, Len(s)))

\* no call on the client
NoCall == [op |-> "none", channel |-> <<>>]

\* mutant: every sender may use the bot
canUse_anyone(msg) == TRUE

\* Bot.canUse
canUse(msg) == msg.broadcaster \/ msg.mod

\* Bot.onMessage: the call it makes on the client, if any
onMessage(prefix, msg) ==
    IF startsWith(msg.message, prefix) /\ canUse(msg)
    THEN LET parts == splitSpaces(Tail(msg.message))
             command == parts[1]
             args == Tail(parts)
         IN  IF command = <<"join">>
             THEN IF args # <<>> /\ args[1] # <<>>
                  THEN [op |-> "join", channel |-> args[1]]
                  ELSE NoCall
             ELSE IF command = <<"leave">>
             THEN [op |-> "leave",
                   channel |-> IF args # <<>> /\ args[1] # <<>>
                               THEN args[1] ELSE msg.channel]
             ELSE NoCall
    ELSE NoCall

\* the chat lines: a prefix of one or two characters or none, a command
\* word or another word, an argument or none; and two lines with a space in
\* an odd place
BotTexts ==
    {p \o w \o a :
         p \in {<<>>, <<"!">>, <<"?">>, <<"?", "?">>},
         w \in {<<"join">>, <<"leave">>, <<"b">>},
         a \in {<<>>, <<" ", "b">>}}
    \cup {<<"!", " ", "join">>, <<"!", "join", " ">>}

\* new RealChat(channels, options), started, the channels joined
newRealChat(channels, opts) ==
    [pc |-> "started", commands |-> opts.commands,
     hasBot |-> enabled_commands(opts.commands),
     prefix |-> IF enabled_commands(opts.commands)
                THEN prefixOf(opts.commands) ELSE <<>>,
     channels |-> SeqToSet(take(channels, 5)), joining |-> {}, leaving |-> {},
     msg |-> [message |-> <<>>, channel |-> <<>>, broadcaster |-> FALSE,
              mod |-> FALSE],
     call |-> NoCall,
     delivered |-> [message |-> <<>>, channel |-> <<>>,
                    broadcaster |-> FALSE, mod |-> FALSE]]

\* mutant: a command is consumed, the hooks after the bot's get no text
hookLoop_consumed(call, obj) ==
    IF call.op # "none" THEN [obj EXCEPT !.message = <<>>] ELSE obj

\* for (let hook of this.messageHooks) hook(obj): the object as the hooks
\* after the bot's receive it; Bot.onMessage assigns to no field of it and
\* returns nothing
hookLoop(call, obj) == obj

\* the 'message' listener of registerSystemHooks on a chat line: the hook
\* of the bot, when there is one, and through it RealChat.join (which asks
\* tmi to join below MAX_CHANNELS joined channels) or RealChat.leave; then
\* the hooks registered with onMessage
OnChat(message, channel, broadcaster, mod) ==
    /\ bot.pc = "started"
    /\ channel \in bot.channels
    /\ LET msg == [message |-> message, channel |-> channel,
                   broadcaster |-> broadcaster, mod |-> mod]
           call == IF bot.hasBot THEN onMessage(bot.prefix, msg) ELSE NoCall
       IN  bot' = [bot EXCEPT
                      !.msg = msg,
                      !.call = call,
                      !.delivered = hookLoop(call, msg),
                      !.joining =
                          IF call.op = "join"
                             /\ Cardinality(bot.channels) < MAX_CHANNELS
                          THEN @ \cup {call.channel} ELSE @,
                      !.leaving =
                          IF call.op = "leave" THEN @ \cup {call.channel}
                          ELSE @]
    /\ UNCHANGED <<chatVars, bankVars, catalogVars, bl, bm, tm, am>>

\* the promise of client.join(channel) settles
JoinSettles(channel, ok) ==
    /\ channel \in bot.joining
    /\ bot' = [bot EXCEPT !.joining = @ \ {channel},
                          !.channels = IF ok THEN @ \cup {channel} ELSE @]
    /\ UNCHANGED <<chatVars, bankVars, catalogVars, bl, bm, tm, am>>

\* the promise of client.part(channel) settles
PartSettles(channel, ok) ==
    /\ channel \in bot.leaving
    /\ bot' = [bot EXCEPT !.leaving = @ \ {channel},
                          !.channels = IF ok THEN @ \ {channel} ELSE @]
    /\ UNCHANGED <<chatVars, bankVars, catalogVars, bl, bm, tm, am>>

\* a client of channel a has been constructed and started
BotInit ==
    /\ NoSession
    /\ BankIdle
    /\ CatalogIdle
    /\ BlacklistIdle
    /\ ContentIdle
    /\ TwitchIdle
    /\ HtmlIdle
    /\ bot \in {newRealChat(<<(<<"a">>)>>, [commands |-> c]) :
                   c \in {CommandsOff, CommandsOn, CommandsWith(<<"?">>),
                          CommandsWith(<<"?", "?">>), CommandsWith(<<>>)}}

BotNext ==
    \/ \E message \in BotTexts, channel \in bot.channels,
          broadcaster, mod \in BOOLEAN :
           OnChat(message, channel, broadcaster, mod)
    \/ \E channel \in bot.joining, ok \in BOOLEAN : JoinSettles(channel, ok)
    \/ \E channel \in bot.leaving, ok \in BOOLEAN : PartSettles(channel, ok)

BotSpec == BotInit /\ [][BotNext]_vars

\* the channel lists a client is constructed with: one to six channels
JoinLists ==
    {take(<< <<"a">>, <<"b">>, <<"c">>, <<"d">>, <<"e">>, <<"h">> >>, n) :
         n \in 1..6}

\* the chat lines that ask the bot for another channel or to leave one
JoinTexts ==
    {<<"!", "join", " ", "f">>, <<"!", "join", " ", "g">>,
     <<"!", "leave", " ", "a">>}

\* a client with the bot has been constructed and started
JoinInit ==
    /\ NoSession
    /\ BankIdle
    /\ CatalogIdle
    /\ BlacklistIdle
    /\ ContentIdle
    /\ TwitchIdle
    /\ HtmlIdle
    /\ bot \in {newRealChat(l, [commands |-> CommandsOn]) : l \in JoinLists}

JoinNext ==
    \/ \E message \in JoinTexts, channel \in bot.channels,
          broadcaster \in BOOLEAN :
           OnChat(message, channel, broadcaster, FALSE)
    \/ \E channel \in bot.joining, ok \in BOOLEAN : JoinSettles(channel, ok)
    \/ \E channel \in bot.leaving, ok \in BOOLEAN : PartSettles(channel, ok)

JoinSpec == JoinInit /\ [][JoinNext]_vars

TypeOK ==
    /\ log \in Seq(1..MaxMsgs)
    /\ marked \subseteq 1..MaxMsgs
    /\ now \in 0..MaxTime
    /\ Len(msgs) <= MaxMsgs

\* ------------------------------------------------------------ properties
Ids(s) == SeqToSet(s)

InLog(x) == x \in Ids(log)

\* the messages appended since the log was last cleared
sinceClear == SubSeq(appended, clearedAt + 1, Len(appended))

LastN(s, n) == IF Len(s) <= n THEN s ELSE SubSeq(s, Len(s) - n + 1, Len(s))

Pos(x) == CHOOSE i \in DOMAIN appended : appended[i] = x

NoDup(s) == \A i, j \in DOMAIN s : s[i] = s[j] => i = j

\* C1: under a count limit max without fade the log holds at most max
\* entries, and they are the max most recently appended messages (of those
\* appended since the last clear), the older ones having been removed.
C1_CountLimit ==
    (options.limit.type = "count" /\ options.limit.fade = 0)
        => /\ Len(log) <= options.limit.count
           /\ log = LastN(sinceClear, options.limit.count)

\* max = 3 and appends A,B,C,D: after D the log is B,C,D
C1_Witness ==
    /\ options.limit.type = "count" /\ options.limit.fade = 0
    /\ options.limit.count = 3
    /\ Len(appended) = 4 /\ clearedAt = 0
    /\ ev.op = "message" /\ ev.removed = 1
    /\ appended[1] \notin Ids(log)
    /\ log = SubSeq(appended, 2, 4)

\* C2: with a fade duration F an entry leaves the log through eviction only
\* in a fade-timer step, having been marked, and not before F has elapsed
\* since it was marked; the step that marks it keeps it in the log.  Without
\* a fade nothing is ever marked, no destroy timer is pending and the limit
\* timer's step removes its message itself.
C2_FadeProtocol ==
    [][/\ fades =>
            /\ \A x \in Ids(log) \ Ids(log') :
                  \/ ev'.op = "clear"
                  \/ /\ x \in marked
                     /\ ev'.op \in {"destroyOne", "destroyArray"}
                     /\ now >= markedAt[x] + options.limit.fade
            /\ \A x \in marked' \ marked :
                  (x \in Ids(log) \/ x = ev'.app) => x \in Ids(log')
       /\ ~fades =>
            /\ marked' = {}
            /\ \A i \in DOMAIN timers' : timers'[i].kind = "limit"
            /\ ev'.op = "limit" =>
                  (ev'.removal /\ ev'.nix \cap Ids(log') = {})
      ]_vars

\* a fade timer has just removed a marked entry while another marked entry
\* is still in the log
C2_Witness ==
    /\ fades
    /\ ev.op \in {"destroyOne", "destroyArray"}
    /\ ev.removed > 0
    /\ \E x \in marked : InLog(x)

\* C3: under a time limit of ms every hook invocation starts a removal timer
\* of its own for its message, due ms later, whatever the log holds; no
\* entry leaves the log before its ms have elapsed unless the log is cleared;
\* and every message in the log is eventually absent from it.
C3_TimeLimit ==
    /\ [][(options.limit.type = "time" /\ ev'.app # 0) =>
             /\ Len(timers') = Len(timers) + 1
             /\ timers'[Len(timers')].kind = "limit"
             /\ timers'[Len(timers')].ids = <<ev'.app>>
             /\ timers'[Len(timers')].due = now + options.limit.ms
         ]_vars
    /\ [][options.limit.type = "time" =>
             \A x \in Ids(log) \ Ids(log') :
                 \/ ev'.op = "clear"
                 \/ now >= msgs[x].at + options.limit.ms
         ]_vars
    /\ \A x \in 1..MaxMsgs :
          (options.limit.type = "time" /\ InLog(x)) ~> ~InLog(x)

\* the timer of one message has removed it while a later message stays
C3_Witness ==
    /\ options.limit.type = "time"
    /\ ev.op \in {"limit", "destroyOne"}
    /\ ev.removed = 1
    /\ log # <<>>

\* C4: the log lists its entries in the order in which they were appended,
\* the message a step appends is the last entry, and what is rendered is
\* the log itself, or its mirror image when the direction is up.
C4_AppendOrder ==
    /\ Ids(log) \subseteq Ids(appended)
    /\ \A i, j \in DOMAIN log : i < j => Pos(log[i]) < Pos(log[j])
    /\ ev.app # 0 => (log # <<>> /\ log[Len(log)] = ev.app)
    /\ Len(rendered) = Len(log)
    /\ \A i \in DOMAIN log :
          rendered[i] = IF options.direction = "up"
                        THEN log[Len(log) + 1 - i] ELSE log[i]

\* direction up, after a removal, with two or more rows on display
C4_Witness ==
    /\ options.direction = "up"
    /\ Len(log) >= 2
    /\ ev.removal /\ ev.removed > 0

\* C5: a removal leaves exactly the entries whose id is not among the ids
\* it targeted, in their order; an entry appended after the removal was
\* scheduled stays; the log never holds an id twice.
C5_RemovalById ==
    [][/\ ev'.removal =>
            LET base == IF ev'.app # 0 THEN Append(log, ev'.app) ELSE log
                nix == ev'.nix
                seen == ev'.seen
            IN  /\ log' = SelectSeq(base, LAMBDA x : x \notin nix)
                /\ \A k \in DOMAIN appended' :
                      (k > seen /\ appended'[k] \in Ids(base))
                          => appended'[k] \in Ids(log')
       /\ NoDup(log')
       /\ Ids(log') \subseteq Ids(appended')
      ]_vars

\* a fade timer scheduled before the latest appends has removed its targets
\* and a message appended after it was scheduled is in the log
C5_Witness ==
    /\ ev.removal /\ ev.app = 0 /\ ev.removed > 0
    /\ \E k \in DOMAIN appended : k > ev.seen /\ InLog(appended[k])

\* C6: a scheduled removal that fires when none of its targets is in the
\* log leaves the log as it is.
C6_Idempotent ==
    [][(ev'.removal /\ ev'.app = 0 /\ ev'.nix \cap Ids(log) = {})
          => log' = log]_vars

\* a removal fired for targets that were gone, with other rows on display
C6_Witness ==
    /\ ev.removal /\ ev.app = 0 /\ ev.nix # {}
    /\ ev.removed = 0
    /\ log # <<>>

\* C7: after the clear-chat hook has run the log is empty, whatever the
\* limit, the fade, the marked entries and the pending timers.
C7_Clear == ev.op = "clear" => (log = <<>> /\ rendered = <<>>)

\* a clear that emptied a log holding a fading entry, timers still pending
C7_Witness ==
    /\ ev.op = "clear"
    /\ ev.removed > 1
    /\ timers # <<>>
    /\ marked # {}

\* C8: once end() has been called no message hook is invoked, also not
\* for a message whose pronoun lookup was in flight when end() was called.
C8_NoHookAfterEnd == \A m \in DOMAIN msgs : ~msgs[m].late

\* C9: a message is dropped before the hooks exactly when its blacklist
\* verdict is "suppressed".
C9_Blacklist ==
    \A m \in DOMAIN msgs :
        isBlacklist(options, msgs[m]) <=> msgs[m].where = "dropped"

localOf(s, c) == IF c \in DOMAIN s.local THEN s.local[c] ELSE EmptyBank

\* C13: the bank getAll(channel) returns holds exactly the ids of the
\* global bank and of the channel's bank; an id of the channel's bank
\* carries the channel's image, every other id the global image.
C13_GetAll ==
    hist.op = "getAll" =>
        LET g == hist.before.global
            l == localOf(hist.before, hist.channel)
        IN  /\ DOMAIN hist.all = DOMAIN g \cup DOMAIN l
            /\ \A k \in DOMAIN hist.all :
                  hist.all[k] = IF k \in DOMAIN l THEN l[k] ELSE g[k]

\* getAll on a channel whose bank overrides one global id and leaves
\* another global id visible
C13_Witness ==
    /\ hist.op = "getAll"
    /\ hist.channel \in DOMAIN sb.local
    /\ \E k \in DOMAIN sb.global \cap DOMAIN sb.local[hist.channel] :
          sb.global[k] # sb.local[hist.channel][k]
    /\ \E k \in DOMAIN sb.global : k \notin DOMAIN sb.local[hist.channel]

\* C14: get(id, channel) returns the channel's image for id when the
\* channel's bank holds id, else the global image for id, else undefined;
\* it is the value the bank returned by getAll(channel) holds for id.
C14_Get ==
    hist.op = "get" =>
        LET g == hist.before.global
            l == localOf(hist.before, hist.channel)
        IN  /\ hist.val = IF hist.id \in DOMAIN l THEN l[hist.id]
                          ELSE IF hist.id \in DOMAIN g THEN g[hist.id]
                          ELSE "undefined"
            /\ hist.val = prop(getAll(hist.before, hist.channel).all, hist.id)

\* get answered from the channel's bank although the global bank holds
\* another image for the id
C14_Witness ==
    /\ hist.op = "get"
    /\ hist.channel \in DOMAIN sb.local
    /\ hist.id \in DOMAIN sb.local[hist.channel]
    /\ hist.id \in DOMAIN sb.global
    /\ sb.global[hist.id] # hist.val

\* C15: get and getAll leave the SuperBank as it is, the bank getAll
\* returns is an object of its own, and a write to that bank leaves the
\* SuperBank as it is.
C15_ReadsPure ==
    [][/\ hist'.op \in {"get", "getAll", "modify"} => sb' = sb
       /\ hist'.op = "getAll" => hist'.obj = "fresh"]_vars

\* the caller has changed the bank it got for a channel without a bank of
\* its own, and the global bank still holds what it held
C15_Witness ==
    /\ hist.op = "modify"
    /\ hist.channel \notin DOMAIN sb.local
    /\ sb.global # EmptyBank
    /\ hist.all # sb.global

\* C16: after addGlobal(patch) the global bank holds the patch's image for
\* every id of the patch and its previous image for every other id it held,
\* and the per-channel banks are unchanged; after addLocals(patches) the
\* same holds of the bank of every channel of patches, created when absent,
\* and the global bank and the other channels' banks are unchanged.
C16_Merge ==
    [][/\ hist'.op = "addGlobal" =>
            LET p == hist'.bank IN
                /\ DOMAIN sb'.global = DOMAIN sb.global \cup DOMAIN p
                /\ \A k \in DOMAIN p : sb'.global[k] = p[k]
                /\ \A k \in DOMAIN sb.global \ DOMAIN p :
                      sb'.global[k] = sb.global[k]
                /\ sb'.local = sb.local
       /\ hist'.op = "addLocals" =>
            LET m == hist'.banks IN
                /\ sb'.global = sb.global
                /\ DOMAIN sb'.local = DOMAIN sb.local \cup DOMAIN m
                /\ \A c \in DOMAIN sb.local \ DOMAIN m :
                      sb'.local[c] = sb.local[c]
                /\ \A c \in DOMAIN m :
                      LET old == localOf(sb, c) IN
                          /\ DOMAIN sb'.local[c] = DOMAIN old \cup DOMAIN m[c]
                          /\ \A k \in DOMAIN m[c] : sb'.local[c][k] = m[c][k]
                          /\ \A k \in DOMAIN old \ DOMAIN m[c] :
                                sb'.local[c][k] = old[k]
      ]_vars

\* addLocals has created one channel's bank and patched another's, where
\* it replaced one image and kept one
C16_Witness ==
    /\ hist.op = "addLocals"
    /\ \E c \in DOMAIN hist.banks : c \notin DOMAIN hist.before.local
    /\ \E c \in DOMAIN hist.banks \cap DOMAIN hist.before.local :
          /\ \E k \in DOMAIN hist.banks[c] \cap DOMAIN hist.before.local[c] :
                hist.before.local[c][k] # sb.local[c][k]
          /\ \E k \in DOMAIN hist.before.local[c] :
                k \notin DOMAIN hist.banks[c]

isAdd(h) == h.op \in {"addGlobal", "addLocals"}

\* the add call recorded in h, applied to SuperBank s
applyAdd(h, s) ==
    IF h.op = "addGlobal" THEN addGlobal(s, h.bank) ELSE addLocals(s, h.banks)

\* the add calls recorded in h1 and h2 define an id of the same bank
overlap(h1, h2) ==
    /\ h1.op = h2.op
    /\ IF h1.op = "addGlobal"
       THEN DOMAIN h1.bank \cap DOMAIN h2.bank # {}
       ELSE \E c \in DOMAIN h1.banks \cap DOMAIN h2.banks :
                DOMAIN h1.banks[c] \cap DOMAIN h2.banks[c] # {}

\* C17: an add call repeated with the same patch leaves the SuperBank as
\* the first call left it; two add calls whose patches define no id of the
\* same bank give the same SuperBank in either order; and where both define
\* an id of the same bank, the later call's image is the one it holds.
C17_Algebra ==
    [][(isAdd(hist) /\ isAdd(hist')) =>
          /\ (hist'.op = hist.op /\ hist'.bank = hist.bank
                 /\ hist'.banks = hist.banks) => sb' = sb
          /\ ~overlap(hist, hist')
                => sb' = applyAdd(hist, applyAdd(hist', hist.before))
          /\ (hist.op = "addGlobal" /\ hist'.op = "addGlobal")
                => \A k \in DOMAIN hist.bank \cap DOMAIN hist'.bank :
                       sb'.global[k] = hist'.bank[k]
          /\ (hist.op = "addLocals" /\ hist'.op = "addLocals")
                => \A c \in DOMAIN hist.banks \cap DOMAIN hist'.banks :
                     \A k \in DOMAIN hist.banks[c] \cap DOMAIN hist'.banks[c] :
                       sb'.local[c][k] = hist'.banks[c][k]
      ]_vars

\* two addGlobal calls in a row with different images for the same id: the
\* global bank holds the later one's
C17_Witness ==
    /\ hist.op = "addGlobal"
    /\ hist.bank = "kappa" :> "img1"
    /\ hist.before.global = ("kappa" :> "img2") @@ ("lul" :> "img2")
    /\ sb.global = ("kappa" :> "img1") @@ ("lul" :> "img2")

\* the sources populate() was asked to query
enabled(x) ==
    \/ x = "twitchBadges"
    \/ x \in {"ffzGlobal", "ffzChannels"} /\ pop.useFfz
    \/ x \in {"bttvGlobal", "bttvBadges"} /\ pop.useBttv

\* what source x hands to the merge: its answer, or nothing when its
\* fetch failed
given(x, answer, nothing) == IF pop.got[x] = "ok" THEN answer ELSE nothing

\* C18: populate() never rejects, and when it has resolved every bank holds
\* what the sources that answered well contributed and nothing for a source
\* whose fetch failed or whose answer did not parse: the Twitch badges, the
\* FFZ channel emotes and the BTTV badges as answered, the global emotes of
\* FFZ overlaid by those of BTTV.
C18_SourceFailure ==
    /\ pop.pc # "rejected"
    /\ pop.pc = "done" =>
          /\ \A x \in Sources : enabled(x) <=> pop.got[x] # "none"
          /\ images.badges.global = given("twitchBadges", TwitchBadges, EmptyBank)
          /\ images.badges.local = NoLocals
          /\ images.emotes.local =
                given("ffzChannels",
                      [c \in SeqToSet(pop.channel) |-> FfzRoom(c).emoticons],
                      NoLocals)
          /\ images.customBadges = given("bttvBadges", BttvBadges, EmptyBank)
          /\ LET ffz == given("ffzGlobal", FfzGlobalEmotes, EmptyBank)
                 bttv == given("bttvGlobal", BttvGlobalEmotes, EmptyBank)
                 g == images.emotes.global
             IN  /\ DOMAIN g = DOMAIN ffz \cup DOMAIN bttv
                 /\ \A k \in DOMAIN bttv : g[k] = bttv[k]
                 /\ \A k \in DOMAIN ffz \ DOMAIN bttv : g[k] = ffz[k]

\* every source was queried, the FFZ channel answer did not parse, and the
\* other sources' emotes and badges are in the banks
C18_Witness ==
    /\ pop.pc = "done"
    /\ pop.useFfz /\ pop.useBttv
    /\ pop.got["ffzChannels"] = "badset"
    /\ \A x \in Sources \ {"ffzChannels"} : pop.got[x] = "ok"
    /\ images.emotes.local = NoLocals
    /\ "lul" \in DOMAIN images.emotes.global
    /\ "pog" \in DOMAIN images.emotes.global
    /\ images.badges.global = TwitchBadges

C11_MapNotLoaded ==
    [][\A u \in Users :
          (/\ options.pronouns
           /\ Len(msgs') = Len(msgs) + 1
           /\ msgs'[Len(msgs')].name = u
           /\ msgs'[Len(msgs')].where # "dropped"
           /\ pronounCache[u] = "unset")
          => LET c == msgs'[Len(msgs')] IN
                 IF ~displayMap
                 THEN /\ c.lookup = "nomap"
                      /\ c.result = "absent"
                      /\ c.where = "delivered"
                      /\ pronounCache' = pronounCache
                 ELSE /\ c.lookup = "fetch"
                      /\ c.where = "pending"
      ]_vars

\* a user asked about before the map had loaded is looked up after it has
\* loaded, and the lookup returns a pronoun
C11_Witness ==
    \E m1, m2 \in DOMAIN msgs :
        /\ m1 < m2
        /\ msgs[m1].name = msgs[m2].name
        /\ msgs[m1].lookup = "nomap" /\ msgs[m1].result = "absent"
        /\ msgs[m2].lookup = "fetch" /\ msgs[m2].result \in PronounIds

\* C12: every message that passed the client reaches the hook once, a
\* message whose lookup fetches only when its own fetch has settled and then
\* whatever the outcome, a failure included; without pronoun lookup the log
\* lists the messages that passed the client in arrival order.
C12_DeliveredOnce ==
    /\ NoDup(appended)
    /\ \A m \in DOMAIN msgs :
          /\ msgs[m].where \in {"dropped", "pending", "delivered"}
          /\ (m \in Ids(appended)) <=> (msgs[m].where = "delivered")
          /\ (msgs[m].where = "pending")
                <=> (msgs[m].lookup = "fetch" /\ msgs[m].response = "none")
          /\ (msgs[m].lookup = "fetch" /\ msgs[m].response # "none")
                => msgs[m].where = "delivered"
    /\ ~options.pronouns =>
          appended = SelectSeq([i \in 1..Len(msgs) |-> i],
                               LAMBDA i : msgs[i].where # "dropped")

\* a message whose fetch was rejected has been appended, after a message
\* that arrived later than it
C12_Witness ==
    /\ \E m \in DOMAIN msgs :
          msgs[m].response = "fail" /\ msgs[m].where = "delivered"
    /\ \E i, j \in DOMAIN appended : i < j /\ appended[i] > appended[j]

\* C20: a literal entry of blacklist.users suppresses a sender exactly when
\* the sender's name equals the entry ignoring case; a name that contains
\* the entry, or is contained in it, is not suppressed.
C20_UserExact ==
    bl.verdict # "unchecked" =>
        ((bl.verdict = "suppressed")
            <=> (toUpperCase(bl.user) = toUpperCase(bl.entry)))

\* the text holds the word as a whole word, ignoring case
holdsWord(text, word) ==
    \E i \in 1..Len(text) :
        /\ i + Len(word) - 1 <= Len(text)
        /\ toUpperCase(SubSeq(text, i, i + Len(word) - 1)) = toUpperCase(word)
        /\ (i = 1 \/ text[i - 1] = " ")
        /\ (i + Len(word) - 1 = Len(text) \/ text[i + Len(word)] = " ")

\* C21: a message is suppressed by content when its text starts with a
\* listed prefix, ignoring case, or holds a listed entry as a whole word; a
\* message that matches none of the content rules is delivered.
C21_ContentVerdict ==
    bm.verdict # "unchecked" =>
        ((bm.verdict = "suppressed")
            <=> IF bm.list = "prefixes"
                THEN startsWith(toUpperCase(bm.text), toUpperCase(bm.entry))
                ELSE holdsWord(bm.text, bm.entry))

\* the number a string of hex digits writes
RECURSIVE hexValue(_)
hexValue(d) ==
    IF d = <<>> THEN 0
    ELSE 16 * hexValue(SubSeq(d, 1, Len(d) - 1))
         + (CHOOSE i \in DOMAIN HexDigits : HexDigits[i] = d[Len(d)]) - 1

\* the low 24 bits of the rolling hash h := 31 * h + charCode over the
\* first n characters of name
RECURSIVE low24(_, _)
low24(name, n) ==
    IF n = 0 THEN 0
    ELSE (31 * low24(name, n - 1) + charCode(name[n])) % 16777216

\* C22: without a color tag the color of a message is '#' and exactly six
\* hex digits that write the low 24 bits of the rolling hash
\* (h << 5) - h + charCode of the sender name; a color tag is used unchanged.
C22_Color ==
    tm.pc = "built" =>
        IF tag(tm.tags, "color") # <<>>
        THEN tm.fields.color = tag(tm.tags, "color")
        ELSE LET c == tm.fields.color
             IN  /\ Len(c) = 7
                 /\ c[1] = "#"
                 /\ \A i \in 2..7 : c[i] \in SeqToSet(HexDigits)
                 /\ hexValue(SubSeq(c, 2, 7))
                        = low24(tm.fields.name, Len(tm.fields.name))

\* a color derived from a hash that left the 32-bit range and came back
\* negative
C22_Witness ==
    /\ tm.pc = "built"
    /\ tag(tm.tags, "color") = <<>>
    /\ tm.fields.hash < 0
    /\ Len(tm.fields.color) = 7

\* C23: a subscriber with the raw badge value v has tier 3 and v - 3000
\* display months when v >= 3000, tier 2 and v - 2000 when 2000 <= v < 3000,
\* tier 1 and v otherwise; the total comes from badge-info alone.
C23_Tier ==
    (tm.pc = "built" /\ flag(tm.tags, "subscriber")
        /\ sub(tm.tags, "badges") # <<>>) =>
        LET v == parseInt(sub(tm.tags, "badges")[1])
            info == sub(tm.tags, "badge-info")
        IN  /\ tm.fields.subMonths # <<>>
            /\ LET m == tm.fields.subMonths[1]
               IN  /\ v >= 3000 => m.tier = 3 /\ m.badge = v - 3000
                   /\ (v >= 2000 /\ v < 3000) =>
                          m.tier = 2 /\ m.badge = v - 2000
                   /\ v < 2000 => m.tier = 1 /\ m.badge = v
                   /\ m.total = IF info = <<>> THEN 0 ELSE parseInt(info[1])

\* the badge value 3002 has been decomposed into tier 3 and 2 months
C23_Witness ==
    /\ tm.pc = "built"
    /\ sub(tm.tags, "badges") = <<(<<"3", "0", "0", "2">>)>>
    /\ tm.fields.subMonths = <<[badge |-> 2, tier |-> 3, total |-> 7]>>

\* C29: the level of a SubMessage is prime for the plan Prime, 2 for 2000,
\* 3 for 3000 and 1 for any other or no plan; prime is set exactly at level
\* prime; resub is set exactly when the cumulative months are given, and
\* cumulative is defined exactly when resub is set.
C29_SubMessage ==
    (tm.pc = "built" /\ tm.class = "sub") =>
        LET plan == tag(tm.tags, "msg-param-sub-plan")
        IN  /\ plan = Prime => tm.fields.level = "prime"
            /\ plan = Plan2000 => tm.fields.level = "2"
            /\ plan = Plan3000 => tm.fields.level = "3"
            /\ plan \notin {Prime, Plan2000, Plan3000} =>
                   tm.fields.level = "1"
            /\ tm.fields.prime <=> tm.fields.level = "prime"
            /\ tm.fields.resub
                   <=> has(tm.tags, "msg-param-cumulative-months")
            /\ (tm.fields.cumulative # <<>>) <=> tm.fields.resub

\* a resubscription of twelve months on an unknown plan code
C29_Witness ==
    /\ tm.pc = "built"
    /\ tm.class = "sub"
    /\ tag(tm.tags, "msg-param-sub-plan") = Plan1000
    /\ tm.fields.level = "1"
    /\ tm.fields.resub
    /\ tm.fields.cumulative = <<12>>

\* s is made of <img ...> tags and spaces only
RECURSIVE onlyTags(_)
onlyTags(s) ==
    IF s = <<>> THEN TRUE
    ELSE IF Head(s) = " " THEN onlyTags(Tail(s))
    ELSE IF Head(s) = "<img"
    THEN \E j \in 2..Len(s) :
             /\ closes(s[j])
             /\ \A y \in 2..(j - 1) : ~closes(s[y])
             /\ onlyTags(SubSeq(s, j + 1, Len(s)))
    ELSE FALSE

\* the number of <img ...> tags in s
RECURSIVE tagCount(_)
tagCount(s) ==
    IF s = <<>> THEN 0
    ELSE IF Head(s) = "<img" /\ \E j \in 2..Len(s) : closes(s[j])
    THEN LET j == CHOOSE x \in 2..Len(s) :
                      closes(s[x]) /\ \A y \in 2..(x - 1) : ~closes(s[y])
         IN  1 + tagCount(SubSeq(s, j + 1, Len(s)))
    ELSE tagCount(Tail(s))

\* C24: emoteOnly is set exactly when the message html is made of
\* <img ...> tags and white space only, that is when nothing is left of it
\* once every tag is removed and the rest is trimmed; isOneEmoteOnly is set
\* only when emoteOnly is.
C24_EmoteOnly ==
    am.pc = "built" =>
        /\ am.emoteOnly <=> onlyTags(am.message)
        /\ am.isOneEmoteOnly => am.emoteOnly

\* a message of a tag, a space and a tag is flagged emoteOnly
C24_Witness ==
    /\ am.pc = "built"
    /\ am.message = imageToHTML(<<"a">>) \o <<" ">> \o imageToHTML(<<"a">>)
    /\ am.emoteOnly

\* C25: isOneEmoteOnly is set exactly when emoteOnly is set and the
\* message html holds exactly one <img> tag.
C25_OneEmoteOnly ==
    am.pc = "built" =>
        (am.isOneEmoteOnly <=> (am.emoteOnly /\ tagCount(am.message) = 1))

\* C26: after the construction and after every setMessage and
\* resolveEmotes, emoteOnly and isOneEmoteOnly are the values derived from
\* the message html the object holds.
C26_Derived ==
    am.pc = "built" =>
        /\ am.emoteOnly = isEmoteOnly(am.message)
        /\ am.isOneEmoteOnly
               = (isEmoteOnly(am.message) /\ isOneEmoteOnly(am.message))

\* resolveEmotes has turned a text that was no emote into one tag, and
\* both flags have followed
C26_Witness ==
    /\ am.pc = "built"
    /\ am.op = "resolveEmotes"
    /\ ~isEmoteOnly(am.raw)
    /\ am.emoteOnly
    /\ am.isOneEmoteOnly

\* how often the character c stands in s
count(s, c) == Cardinality({i \in DOMAIN s : s[i] = c})

\* the positions of the text that lie in a transport emote range
inRange(emotesFromTwitch) ==
    UNION {e..emotesFromTwitch[e] : e \in DOMAIN emotesFromTwitch}

\* the text with < and > replaced by &lt; and &gt;
RECURSIVE escaped(_)
escaped(raw) ==
    IF raw = <<>> THEN <<>>
    ELSE (CASE Head(raw) = "<" -> <<"&", "l", "t", ";">>
            [] Head(raw) = ">" -> <<"&", "g", "t", ";">>
            [] OTHER -> <<Head(raw)>>) \o escaped(Tail(raw))

\* C27: resolveEmotes escapes < and > of the text outside the transport
\* emote ranges before it substitutes third-party emotes: with no emote
\* range and a bank whose only key is "<3" the message becomes the escaped
\* text without any <img> tag, and in every case the only < and > that
\* stand in the message as characters are those the text holds inside an
\* emote range.
C27_EscapeFirst ==
    (am.pc = "built" /\ am.op = "resolveEmotes") =>
        /\ (am.emotes = NoRanges /\ am.bank = <<Heart>>) =>
               /\ am.message = escaped(am.raw)
               /\ count(am.message, "<img") = 0
        /\ \A c \in {"<", ">"} :
               count(am.message, c)
                   = Cardinality({i \in inRange(am.emotes) \cap DOMAIN am.raw :
                                      am.raw[i] = c})

\* the text "h <3" has become "h &lt;3" under a bank that holds "<3"
C27_Witness ==
    /\ am.pc = "built"
    /\ am.op = "resolveEmotes"
    /\ am.raw = <<"h", " ", "<", "3">>
    /\ am.bank = <<Heart>>
    /\ am.message = <<"h", " ", "&", "l", "t", ";", "3">>

\* the pairs of badges-raw, in list order
pairs == split(tm.tags["badges-raw"], ",")

\* the key a pair is looked up with
keyOf(pair) ==
    IF split(pair, "/")[1] = <<"subscriber">>
    THEN <<"subscriber", ":", "0">>
    ELSE split(pair, "/")[1] \o <<":">> \o split(pair, "/")[2]

\* C28: resolveBadges leaves a badge list that holds, in list order,
\* exactly one entry for every pair of badges-raw found in the badge bank
\* and none for a pair not found; the entry of a subscriber pair is the
\* image of subscriber:0 under a name that embeds subscriber-<version> and
\* subscriber-tier-<tier>.
C28_Badges ==
    (tm.op \in {"resolveBadges", "resolveBadgesPreload"}
        /\ has(tm.tags, "badges-raw")) =>
        LET found == SelectSeq(pairs, LAMBDA x : keyOf(x) \in DOMAIN tm.bank)
        IN  /\ Len(tm.badges) = Len(found)
            /\ \A i \in DOMAIN found :
                   /\ tm.badges[i].img = tm.bank[keyOf(found[i])]
                   /\ split(found[i], "/")[1] = <<"subscriber">> =>
                          tm.badges[i].name
                              = subscriberName(split(found[i], "/")[2],
                                               tm.fields.subMonths)

\* C30: join and leave are invoked on the client only for a message that
\* starts with the command prefix and whose sender is the broadcaster or a
\* moderator of the channel it was sent in, and only with the commands
\* option enabled.
C30_Gate ==
    (bot.pc = "started" /\ bot.call.op # "none") =>
        /\ bot.commands.kind # "false"
        /\ bot.commands # CommandsWith(<<>>)
        /\ startsWith(bot.msg.message,
                      IF bot.commands.kind = "string" THEN bot.commands.value
                      ELSE <<"!">>)
        /\ (bot.msg.broadcaster \/ bot.msg.mod)

\* a moderator who is not the broadcaster has made the client leave
C30_Witness ==
    /\ bot.pc = "started"
    /\ bot.call.op = "leave"
    /\ bot.msg.mod
    /\ ~bot.msg.broadcaster

\* what follows the configured prefix in the chat line the bot saw last
afterPrefix == SubSeq(bot.msg.message, Len(bot.prefix) + 1,
                      Len(bot.msg.message))

\* C31: whatever the length of the configured prefix P, a permitted
\* sender's P+"join X" calls join(X), P+"leave X" calls leave(X), P+"leave"
\* calls leave on the channel of the message, P+"join" calls nothing, and
\* another command word calls neither.
C31_Parsing ==
    (/\ bot.pc = "started"
     /\ bot.hasBot
     /\ bot.msg.broadcaster \/ bot.msg.mod
     /\ startsWith(bot.msg.message, bot.prefix)) =>
        /\ \A x \in {<<"b">>} :
               /\ afterPrefix = <<"join", " ">> \o x =>
                      bot.call = [op |-> "join", channel |-> x]
               /\ afterPrefix = <<"leave", " ">> \o x =>
                      bot.call = [op |-> "leave", channel |-> x]
        /\ afterPrefix = <<"leave">> =>
               bot.call = [op |-> "leave", channel |-> bot.msg.channel]
        /\ afterPrefix = <<"join">> => bot.call = NoCall
        /\ (afterPrefix # <<>> /\ Head(afterPrefix) \notin {"join", "leave"})
               => bot.call = NoCall

\* C32: the bot is a side channel: the hooks registered with onMessage
\* receive the message object as it was constructed, whether or not the bot
\* acted on it.
C32_SideChannel ==
    bot.pc = "started" => bot.delivered = bot.msg

\* a leave command has been carried out and handed on with its text
C32_Witness ==
    /\ bot.pc = "started"
    /\ bot.call.op = "leave"
    /\ bot.delivered.message = <<"!", "leave">>

\* C37: the client is never joined to more than MAX_CHANNELS channels,
\* whatever joins the bot is asked for and whenever they settle.
C37_MaxChannels ==
    bot.pc = "started" => Cardinality(bot.channels) <= MAX_CHANNELS

\* C36: the scan of resolveEmotes moves forward: every pass of the loop
\* leaves the scan index greater than it found it, whatever the ranges.
C36_Progress ==
    [][(am.pc = "scan" /\ am'.pc = "scan") => am'.idx > am.idx]_vars

\* what a message built from the tags of a named sender holds for the tags
\* that are missing, the badge list apart
sparseDefaults ==
    /\ tm.pc = "built"
    /\ tm.op # "raised"
    /\ ~has(tm.tags, "color") =>
           tm.fields.color = createColor(tm.fields.name)
    /\ ~has(tm.tags, "badges") =>
           /\ ~tm.fields.partner
           /\ ~tm.fields.broadcaster
           /\ tm.fields.subMonths = <<>>
    /\ (~has(tm.tags, "badge-info") /\ tm.fields.subMonths # <<>>) =>
           tm.fields.subMonths[1].total = 0
    /\ ~has(tm.tags, "id") => tm.fields.id = <<"uuid">>
    /\ ~has(tm.tags, "tmi-sent-ts") => tm.fields.timestamp.from = "now"
    /\ (tm.op = "resolveEmotes" /\ ~has(tm.tags, "emotes")) =>
           \A i \in DOMAIN tm.html : tm.html[i] # "<img"

C34_External ==
    ev.op \in {"deleted", "ban"} => \A x \in ev.nix : ~InLog(x)

\* the entries of the log with markedForDelete = false
unmarked == {x \in Ids(log) : x \notin marked}

\* C35: under a count limit max with a fade, once a message has been
\* appended at most max entries of the log are unmarked; no step unmarks
\* an entry; and every marked entry of the log eventually leaves it.
C35_CountFade ==
    /\ []((fades /\ options.limit.type = "count" /\ appended # <<>>) =>
             Cardinality(unmarked) <= options.limit.count)
    /\ [][marked \subseteq marked']_vars
    /\ \A x \in 1..MaxMsgs : (x \in marked /\ InLog(x)) ~> ~InLog(x)

\* an append has just marked an entry while an older one is still fading,
\* and max entries stay unmarked
C35_Witness ==
    /\ fades
    /\ options.limit.type = "count"
    /\ ev.op = "message"
    /\ Cardinality(marked \cap Ids(log)) >= 2
    /\ Cardinality(unmarked) = options.limit.count

\* C38: with pronoun lookup enabled the messages of one sender are
\* appended in the order in which the transport delivered them.
C38_SenderOrder ==
    options.pronouns =>
        \A i, j \in DOMAIN appended :
            (i < j /\ msgs[appended[i]].name = msgs[appended[j]].name)
                => appended[i] < appended[j]

\* C39: after a clear-chat event the log holds no message that the
\* transport delivered before the event: none that had been appended by
\* then, and none that was waiting for its pronoun lookup.
C39_NoPreClear ==
    \A x \in Ids(log) : Pos(x) > clearedAt /\ ~msgs[x].cleared

\* what the banks hold once populate() has resolved, as a function of the
\* call and of what each source answered
expectedImages ==
    LET chans == SeqToSet(pop.channel)
        ffz == IF pop.useFfz THEN given("ffzGlobal", FfzGlobalEmotes, EmptyBank)
               ELSE EmptyBank
        bttv == IF pop.useBttv
                THEN given("bttvGlobal", BttvGlobalEmotes, EmptyBank)
                ELSE EmptyBank
        room(c) == getChannelFFZ(c, pop.rooms[c])
    IN  [badges |->
             [global |-> given("twitchBadges", TwitchBadges, EmptyBank),
              local |-> IF pop.each THEN [c \in chans |-> room(c).badges]
                        ELSE NoLocals],
         emotes |->
             [global |-> [k \in DOMAIN ffz \cup DOMAIN bttv |->
                             IF k \in DOMAIN bttv THEN bttv[k] ELSE ffz[k]],
              local |-> IF pop.each THEN [c \in chans |-> room(c).emotes]
                        ELSE IF pop.useFfz
                        THEN given("ffzChannels",
                                   [c \in chans |-> FfzRoom(c).emoticons],
                                   NoLocals)
                        ELSE NoLocals],
         customBadges |-> IF pop.useBttv
                          THEN given("bttvBadges", BttvBadges, EmptyBank)
                          ELSE EmptyBank]

\* C40: once populate() has resolved the banks are what the answers of the
\* sources determine, in whatever order the fetches settled: on a shared
\* global key the emote of BTTV stands in place of that of FFZ, and a
\* lookup finds the entry of the channel before the global one.
C40_Deterministic ==
    pop.pc = "done" =>
        /\ images = expectedImages
        /\ \A c \in DOMAIN images.emotes.local :
               \A k \in DOMAIN images.emotes.local[c] :
                   get(images.emotes, k, c).val = images.emotes.local[c][k]

\* the room of channel b settled before that of channel a, both well, and
\* each channel holds its own emotes
C40_Witness ==
    /\ pop.pc = "done"
    /\ pop.each
    /\ pop.order = <<"b", "a">>
    /\ pop.rooms = [c \in {"a", "b"} |-> "ok"]
    /\ get(images.emotes, "kappa", "a").val = "ffzA"
    /\ get(images.emotes, "pog", "b").val = "ffzB"

====
